---- MODULE Spec2Model ----
(***************************************************************************)
(* RedBookSkills: the CDP transport of XiaohongshuPublisher                *)
(* (scripts/cdp_publish.py): connect / disconnect, _send and its           *)
(* response-correlation loop, the operations that guard on an open         *)
(* connection, and the network-capture loop of get_content_data.           *)
(*                                                                         *)
(* The automation session is one synchronous thread.  Every action runs    *)
(* the code from one blocking point (a ws.recv call) to the next, so the   *)
(* variable pc names the recv the thread is blocked in.  The browser is    *)
(* the environment: the frame a recv returns is drawn from Frames.         *)
(*                                                                         *)
(* Code that does not touch the socket is specified on its own, over its   *)
(* own variables, the transport being at rest: the decoding of the         *)
(* captured body (DecodeSpec), the resolution of the tab to connect to     *)
(* (TabSpec) and the readiness wait of FeedExplorer (WaitSpec).            *)
(***************************************************************************)
EXTENDS Integers, Sequences, FiniteSets, TLC

\* ------------------------------------------------------------------ bounds
\* Cap on the command-id counter: an operation starts only if the ids it may
\* consume stay within the cap (Python integers do not overflow).
MaxMsgId == 4

\* ------------------------------------------------------- program constants
\* deadline = time.time() + 18
CAPTURE_SECONDS == 18
\* timeout = min(1.0, ...): a recv that times out consumes one second.
RECV_TIMEOUT == 1
\* if status != 200
HTTP_OK == 200
\* A refusal: "direct fetch to this API can be rejected (e.g. 406)".
HTTP_REJECTED == 406

\* URLs are sequences of tokens; the substring test of the code is the
\* contiguous-subsequence test on tokens.
XHS_CONTENT_DATA_API_PATH == <<"api", "galaxy", "list">>
TargetUrl == <<"creator", "api", "galaxy", "list", "page_num=1">>
OtherUrl == <<"creator", "api", "galaxy", "user", "info">>
EmptyUrl == <<>>
Urls == {TargetUrl, OtherUrl}

\* needle in haystack, for token sequences
Contains(needle, haystack) ==
    \E i \in 1..(Len(haystack) + 1) :
        /\ i + Len(needle) - 1 <= Len(haystack)
        /\ SubSeq(haystack, i, i + Len(needle) - 1) = needle

\* ------------------------------------------------------------------ frames
\* One inbound frame, the dict json.loads(raw) yields.  An absent key is the
\* value 0 (id, status), "" (method, error, result) or NonString (requestId:
\* a missing or non-string value, for which isinstance(.., str) is false).
NonString == "<not a str>"
RequestIds == {"r1", "r2"}
NoFrame ==
    [id |-> 0, method |-> "", result |-> "", error |-> "",
     requestId |-> NonString, url |-> EmptyUrl, status |-> 0]

ResponseFrame(i, res, err) == [NoFrame EXCEPT !.id = i, !.result = res, !.error = err]

RequestWillBeSent(rid, u) ==
    [NoFrame EXCEPT !.method = "Network.requestWillBeSent", !.requestId = rid, !.url = u]

ResponseReceived(rid, st) ==
    [NoFrame EXCEPT !.method = "Network.responseReceived", !.requestId = rid, !.status = st]

OtherEvent == [NoFrame EXCEPT !.method = "Page.loadEventFired"]

\* The frames the browser can deliver next, given the current command id:
\* a completion of the current command or of the previous one (a stale
\* response), with a result, without one, or with an error; and events.
ResponseFrames(cur) ==
    { ResponseFrame(i, r[1], r[2]) :
        i \in {cur - 1, cur} \ {0},
        r \in {<<"p1", "">>, <<"", "">>, <<"", "e1">>} }

EventFrames ==
    { RequestWillBeSent(rid, u) : rid \in RequestIds, u \in Urls }
    \cup { RequestWillBeSent(NonString, TargetUrl) }
    \cup { ResponseReceived(rid, st) : rid \in RequestIds, st \in {HTTP_OK, HTTP_REJECTED} }
    \cup { ResponseReceived(NonString, HTTP_OK) }
    \cup { OtherEvent }

Frames(cur) == ResponseFrames(cur) \cup EventFrames

\* In the capture loop no command is outstanding: what can still arrive with an
\* id is a repeated completion of the last command.
LoopFrames(cur) == EventFrames \cup { ResponseFrame(cur, "p1", "") }

\* ------------------------------------------------------------------- state
VARIABLES
    ws,                 \* self.ws: "None", "open", or "broken" (object kept, link closed)
    msg_id,             \* self._msg_id
    issued_at_connect,  \* how many commands had been written when connect() last succeeded
    op,                 \* the public method running, "" when none
    pc,                 \* the recv the thread is blocked in, or "idle"
    msg,                \* _send: the command dict written for the call in progress
    data,               \* _send: the frame the last recv of this call returned
    ret,                \* how a _send call completed in the step just taken: its command,
                        \* the completing frame, the value returned (NoRet in any other state)
    outcome,            \* how the last public call ended
    wire,               \* frames written to the socket during the current public call
    issued,             \* the id of every command written to a socket, in order
    request_url_by_id,  \* get_content_data: the dict of that name
    target_request_id,  \* get_content_data
    target_request_url, \* get_content_data
    message,            \* get_content_data: the frame the loop body has just handled (the
                        \* code reads it in that iteration only; the next loop test drops it)
    now,                \* time.time(), in seconds since the capture started
    deadline,           \* get_content_data
    announced,          \* requestId -> url of every requestWillBeSent received since
                        \* Network.enable was acknowledged in this call
    hits                \* completions seen by the loop: recorded url holds the path, status 200

\* get_content_data after the body fetch (lines 699-747)
VARIABLES
    body_result,        \* what _send("Network.getResponseBody") returned
    request_query,      \* the query of target_request_url, as (key, value) pairs in order
    requested,          \* the arguments page_num, page_size, note_type
    content_data        \* how the method ended: its return value or the exception

decodeVars == <<body_result, request_query, requested, content_data>>

\* connect: _get_targets and _find_or_create_tab (lines 274-355)
VARIABLES
    tpc,                \* the HTTP request the resolution makes next: "idle" before connect
                        \* is called, "get_targets", "create", "done" when resolved
    attempt,            \* _get_targets: the loop variable
    http,               \* the requests made and the restarts attempted by this connect call
    targets,            \* _find_or_create_tab: the listing _get_targets returned
    target_url_prefix,  \* argument of connect
    reuse_existing_tab, \* argument of connect
    local_host,         \* _is_local_host(self.host)
    create_reply,       \* how the PUT /json/new of this call went, "" when none was made
    tab_outcome         \* how _find_or_create_tab ended: the endpoint returned or the exception

tabVars ==
    <<tpc, attempt, http, targets, target_url_prefix, reuse_existing_tab, local_host,
      create_reply, tab_outcome>>

\* FeedExplorer._wait_js_condition and its callers (feed_explorer.py, lines 134-193)
VARIABLES
    wpc,                \* where the wait is: "idle", "test" (the loop test), "evaluate",
                        \* "sleep", "returned"
    wait_caller,        \* the method that waits
    timeout_seconds,    \* argument, in ticks
    wait_now,           \* time.time(), in ticks
    wait_deadline,      \* deadline
    evals,              \* what each evaluation of this wait did, in order
    sleeps,             \* the poll sleeps of this wait
    ready,              \* the value _wait_js_condition returned: "True", "False"; "" before
    wait_error          \* the message of the FeedExplorerError the caller raised, or ""

waitVars ==
    <<wpc, wait_caller, timeout_seconds, wait_now, wait_deadline, evals, sleeps, ready,
      wait_error>>

\* FeedExplorer.search_feeds and the filter engine (feed_explorer.py, lines 54-81
\* and 299-668), called by XiaohongshuPublisher.search_feeds
VARIABLES
    filters,            \* the SearchFilters of the call: dimension -> value or None
    has_move,           \* self._move_mouse was supplied
    has_click,          \* self._click_mouse was supplied
    eng,                \* the position of the call and the locals of its methods
    validated,          \* what filters.validate() did: "", "accepted", "rejected"
    navigated,          \* self._navigate(search_url) was issued
    evaluated,          \* self._evaluate(...) was called
    pointer_moved,      \* self._move_mouse(...) was called
    pointer,            \* the last pointer events dispatched, oldest first
    clicks,             \* the options clicked, in order: index in values, and by what
    fallbacks           \* the calls of the script fallback, in order: index in values,
                        \* and what the script gave

filterVars ==
    <<filters, has_move, has_click, eng, validated, navigated, evaluated, pointer_moved,
      pointer, clicks, fallbacks>>

\* publish_pipeline.main (publish_pipeline.py, lines 205-458)
VARIABLES
    args,               \* the parsed arguments: preview, auto_publish, headless,
                        \* auto_like_collect, and which media argument was given
    ppc,                \* where main is: "start", "ensure_chrome", "connect",
                        \* "check_login", "reconnect", "open_login_page", "media", "fill",
                        \* "click_publish", "like_collect", "cleanup", "exited"
    exit_code,          \* the exit code of the process, once ppc = "exited"
    printed,            \* the status lines written to stdout
    logged_in,          \* what check_login returned: "", "True", "False"
    downloads,          \* the calls of ImageDownloader.download_all / download_video
    fills,              \* the calls of publisher.publish / publish_video
    publish_clicks,     \* the clicks on the publish button
    note_link,          \* what _click_publish returned: None or "link"
    downloader,         \* the ImageDownloader of the run: "None", "created", or
                        \* "cleaned" once its cleanup() was called
    steps               \* the steps of main that were carried out, in order

mainVars ==
    <<args, ppc, exit_code, printed, logged_in, downloads, fills, publish_clicks, note_link,
      downloader, steps>>

\* cdp_publish.main, the commands check-login, fill, publish and click-publish
\* (cdp_publish.py, lines 1306-1657)
VARIABLES
    cli,                \* the parsed arguments: command, the media argument, local_mode
    cpc,                \* where main is: "start", "content", "connect", "check_login",
                        \* "fill", "click_publish", "exited"
    fill_steps,         \* the steps of publish / publish_video that returned, in order
    fill_result,        \* "" before and during the fill, then "returned" or "CDPError"
    cli_clicks,         \* the clicks on the publish button
    cli_printed,        \* the status lines written to stdout
    cli_end             \* how main ended: "", "returned", "sys.exit(0)", "sys.exit(1)",
                        \* "CDPError"

cliVars == <<cli, cpc, fill_steps, fill_result, cli_clicks, cli_printed, cli_end>>

\* ImageDownloader (image_downloader.py, lines 21-179) and the directory it works in
VARIABLES
    temp_dir_arg,       \* the temp_dir argument of the constructor: None or "dir"
    dpc,                \* "new" before the constructor ran, then "ready"
    owns_dir,           \* self._owns_dir
    dir_there,          \* self.temp_dir is a directory on the disk
    dir_files,          \* the files in that directory
    downloaded_files,   \* self.downloaded_files
    dl_count,           \* the downloads started so far
    cleanups,           \* the calls of cleanup() so far
    last_call,          \* the last thing that happened: "", "download", "cleanup",
                        \* or "other" for another program at work in the directory
    dl_raised           \* the last call of a method of the downloader raised

downloaderVars ==
    <<temp_dir_arg, dpc, owns_dir, dir_there, dir_files, downloaded_files, dl_count, cleanups,
      last_call, dl_raised>>

\* The variables of the transport.
cdpVars ==
    <<ws, msg_id, issued_at_connect, op, pc, msg, data, ret, outcome, wire, issued,
      request_url_by_id, target_request_id, target_request_url, message,
      now, deadline, announced, hits>>

\* The variables the transport does not touch.
restVars == <<decodeVars, tabVars, waitVars, filterVars, mainVars, cliVars, downloaderVars>>

vars == <<cdpVars, restVars>>

connVars == <<ws, issued_at_connect>>
captureVars ==
    <<request_url_by_id, target_request_id, target_request_url, message,
      now, deadline, announced, hits>>

EmptyDict == [k \in {} |-> EmptyUrl]
NoMsg == [id |-> 0, method |-> "", params |-> ""]
NoRet == [id |-> 0, method |-> "", frame |-> NoFrame, skipped |-> NoFrame, raised |-> FALSE, value |-> ""]
NoOutcome ==
    [op |-> "", kind |-> "", id |-> 0, error |-> "", status |-> 0, url |-> EmptyUrl, value |-> ""]

\* dict.get(key, "")
Lookup(d, k) == IF k \in DOMAIN d THEN d[k] ELSE EmptyUrl
\* d[key] = value
Store(d, k, v) == [x \in (DOMAIN d) \cup {k} |-> IF x = k THEN v ELSE d[x]]

CdpInit ==
    /\ ws = "None"
    /\ msg_id = 0
    /\ issued_at_connect = 0
    /\ op = ""
    /\ pc = "idle"
    /\ msg = NoMsg
    /\ data = NoFrame
    /\ ret = NoRet
    /\ outcome = NoOutcome
    /\ wire = <<>>
    /\ issued = <<>>
    /\ request_url_by_id = EmptyDict
    /\ target_request_id = ""
    /\ target_request_url = EmptyUrl
    /\ message = NoFrame
    /\ now = 0
    /\ deadline = 0
    /\ announced = EmptyDict
    /\ hits = 0


\* ------------------------------------------------------- outcomes of a call
Success(o, v) == [NoOutcome EXCEPT !.op = o, !.kind = "ok", !.value = v]
\* raise CDPError("Not connected. Call connect() first.")
NotConnectedError(o) == [NoOutcome EXCEPT !.op = o, !.kind = "NotConnected"]
\* raise CDPError(f"CDP error: {data['error']}")
ProtocolError(o, i, e) == [NoOutcome EXCEPT !.op = o, !.kind = "CDPError", !.id = i, !.error = e]
\* an argument check of a public method failed
InvalidArgument(o) == [NoOutcome EXCEPT !.op = o, !.kind = "Invalid"]
\* raise CDPError("Content data API responded with non-200 status: ...")
StatusError(o, st, u) == [NoOutcome EXCEPT !.op = o, !.kind = "StatusError", !.status = st, !.url = u]
\* raise CDPError("Timed out waiting for content data request. ...")
TimeoutError(o) == [NoOutcome EXCEPT !.op = o, !.kind = "Timeout"]
\* websockets' ConnectionClosed, raised by ws.send / ws.recv on a dead link
ConnectionClosed(o) == [NoOutcome EXCEPT !.op = o, !.kind = "ConnectionClosed"]

\* The call returns or raises: control is back at the caller of the public
\* method and the locals of _send are gone.
EndCall(o) ==
    /\ pc' = "idle"
    /\ op' = ""
    /\ outcome' = o
    /\ msg' = NoMsg
    /\ data' = NoFrame

\* A public method is entered: fresh locals.
FreshCapture ==
    /\ request_url_by_id' = EmptyDict
    /\ target_request_id' = ""
    /\ target_request_url' = EmptyUrl
    /\ message' = NoFrame
    /\ now' = 0
    /\ deadline' = 0
    /\ announced' = EmptyDict
    /\ hits' = 0

\* connect / disconnect: the records kept per public call start anew as well.
FreshCall ==
    /\ wire' = <<>>
    /\ ret' = NoRet
    /\ FreshCapture

\* ------------------------------------------------------------------- _send
\* Variant: the connection guard is missing.
NotConnected_Never(w) == FALSE

\* if not self.ws
NotConnected(w) == w = "None"

\* self._msg_id += 1
NextMsgId(i) == i + 1

\* Variant: any frame that carries an id is taken for the response.
IsResponseTo_AnyId(f, i) == f.id # 0

\* if data.get("id") == self._msg_id
IsResponseTo(f, i) == f.id = i

\* Variant: the error key is not looked at.
HasError_Never(f) == FALSE

\* if "error" in data
HasError(f) == f.error # ""

\* data.get("result", {})
EmptyResult == "{}"
ResultOf(f) == IF f.result = "" THEN EmptyResult ELSE f.result

\* _send up to its first recv, called from public method o with w the frames
\* the call has written so far: the connection guard, the id, the write.
SendWrite(o, w, method, params, label) ==
    IF NotConnected(ws)
    THEN /\ EndCall(NotConnectedError(o))
         /\ wire' = w
         /\ UNCHANGED <<msg_id, issued>>
    ELSE /\ msg_id' = NextMsgId(msg_id)
         /\ IF ws = "broken"
            THEN /\ EndCall(ConnectionClosed(o))
                 /\ wire' = w
                 /\ UNCHANGED issued
            ELSE /\ msg' = [id |-> msg_id', method |-> method, params |-> params]
                 /\ wire' = Append(w, msg')
                 /\ issued' = Append(issued, msg_id')
                 /\ data' = NoFrame
                 /\ pc' = label
                 /\ op' = o
                 /\ UNCHANGED outcome

SendLabels ==
    {"send", "nav_enable", "nav_navigate", "nav_rest",
     "gcd_enable", "gcd_netenable", "gcd_navigate", "gcd_body"}

\* What the caller of _send does with the returned value v, up to its next recv.
Continue(v) ==
    CASE pc = "send" ->
            \* a bare command (as _evaluate issues): the value goes to the caller
            /\ EndCall(Success(op, v))
            /\ UNCHANGED <<msg_id, wire, issued, captureVars>>
      [] pc = "nav_enable" ->
            \* _navigate: self._send("Page.navigate", {"url": url})
            /\ SendWrite(op, wire, "Page.navigate", "url", "nav_navigate")
            /\ UNCHANGED captureVars
      [] pc = "nav_navigate" ->
            \* after the settle sleep, the page-context work of the method
            /\ SendWrite(op, wire, "Runtime.evaluate", "", "nav_rest")
            /\ UNCHANGED captureVars
      [] pc = "nav_rest" ->
            /\ EndCall(Success(op, v))
            /\ UNCHANGED <<msg_id, wire, issued, captureVars>>
      [] pc = "gcd_enable" ->
            /\ SendWrite(op, wire, "Network.enable", "maxPostDataSize", "gcd_netenable")
            /\ UNCHANGED captureVars
      [] pc = "gcd_netenable" ->
            /\ SendWrite(op, wire, "Page.navigate", "XHS_CONTENT_DATA_URL", "gcd_navigate")
            /\ UNCHANGED captureVars
      [] pc = "gcd_navigate" ->
            \* request_url_by_id = {}; target_request_id = ""; deadline = now + 18
            /\ request_url_by_id' = EmptyDict
            /\ target_request_id' = ""
            /\ target_request_url' = EmptyUrl
            /\ deadline' = now + CAPTURE_SECONDS
            /\ pc' = "gcd_top"
            /\ msg' = NoMsg
            /\ data' = NoFrame
            /\ UNCHANGED <<msg_id, wire, issued, op, outcome, message, now, announced, hits>>
      [] pc = "gcd_body" ->
            \* body_result: decoded and mapped to rows by the rest of the method
            /\ EndCall(Success(op, v))
            /\ UNCHANGED <<msg_id, wire, issued, captureVars>>

\* A requestWillBeSent the browser delivered after Network.enable was acknowledged.
Announce(f) ==
    IF f.method = "Network.requestWillBeSent" /\ f.requestId # NonString
    THEN Store(announced, f.requestId, f.url)
    ELSE announced

\* One iteration of `while True: raw = self.ws.recv()` of _send.
SendRecv(f) ==
    /\ pc \in SendLabels
    /\ UNCHANGED restVars
    /\ ws = "open"
    /\ UNCHANGED connVars
    /\ IF IsResponseTo(f, msg_id)
       THEN IF HasError(f)
            THEN /\ ret' = [NoRet EXCEPT !.id = msg.id, !.method = msg.method, !.frame = f,
                                         !.skipped = data, !.raised = TRUE]
                 /\ EndCall(ProtocolError(op, msg.id, f.error))
                 /\ UNCHANGED <<msg_id, wire, issued, captureVars>>
            ELSE /\ ret' = [NoRet EXCEPT !.id = msg.id, !.method = msg.method, !.frame = f,
                                         !.skipped = data, !.value = ResultOf(f)]
                 /\ Continue(ResultOf(f))
       ELSE \* else: it's an event, skip it
            /\ data' = f
            /\ announced' = IF pc = "gcd_navigate" THEN Announce(f) ELSE announced
            /\ ret' = NoRet
            /\ UNCHANGED <<msg_id, op, pc, msg, outcome, wire, issued,
                           request_url_by_id, target_request_id, target_request_url,
                           message, now, deadline, hits>>


\* ------------------------------------------------------ connect / disconnect
\* connect(): _find_or_create_tab either yields an endpoint, and the socket is
\* opened and stored, or raises, and self.ws is left as it was.
Connect(found) ==
    /\ pc = "idle"
    /\ UNCHANGED restVars
    /\ IF found
       THEN /\ ws' = "open"
            /\ issued_at_connect' = Len(issued)
            /\ outcome' = Success("connect", "")
       ELSE /\ outcome' = [NoOutcome EXCEPT !.op = "connect", !.kind = "NoTab"]
            /\ UNCHANGED connVars
    /\ FreshCall
    /\ UNCHANGED <<msg_id, op, pc, msg, data, issued>>

\* Variant: disconnect() also restarts the id counter.
Disconnect_ResetsCounter ==
    /\ pc = "idle"
    /\ UNCHANGED restVars
    /\ ws' = "None"
    /\ msg_id' = 0
    /\ outcome' = Success("disconnect", "")
    /\ FreshCall
    /\ UNCHANGED <<issued_at_connect, op, pc, msg, data, issued>>

\* disconnect(): if self.ws: self.ws.close(); self.ws = None
Disconnect ==
    /\ pc = "idle"
    /\ UNCHANGED restVars
    /\ ws' = "None"
    /\ outcome' = Success("disconnect", "")
    /\ FreshCall
    /\ UNCHANGED <<msg_id, issued_at_connect, op, pc, msg, data, issued>>

\* The link drops while the thread is blocked in a recv: the recv raises
\* ConnectionClosed, which no caller in the publisher catches; self.ws keeps
\* the dead socket object.
ConnectionLost ==
    /\ pc \in SendLabels \cup {"gcd_recv"}
    /\ UNCHANGED restVars
    /\ ws = "open"
    /\ ws' = "broken"
    /\ EndCall(ConnectionClosed(op))
    /\ ret' = NoRet
    /\ UNCHANGED <<msg_id, issued_at_connect, wire, issued, captureVars>>

\* ---------------------------------------------------------- public methods
\* Ids a call may consume, for the cap on the counter.
Room(n) == msg_id + n <= MaxMsgId

\* A caller invokes _send directly (as _evaluate and the mouse helpers do).
CallSend ==
    /\ pc = "idle"
    /\ UNCHANGED restVars
    /\ Room(1)
    /\ FreshCapture
    /\ ret' = NoRet
    /\ SendWrite("_send", <<>>, "Runtime.evaluate", "expression", "send")
    /\ UNCHANGED connVars

\* The methods that check the connection, then their arguments, then call
\* _navigate: search_feeds, get_feed_detail, publish, publish_video.
NavigatingOps == {"search_feeds", "get_feed_detail", "publish", "publish_video"}

CallNavigating(o, args_ok) ==
    /\ pc = "idle"
    /\ UNCHANGED restVars
    /\ Room(3)
    /\ FreshCapture
    /\ ret' = NoRet
    /\ UNCHANGED connVars
    /\ IF NotConnected(ws)
       THEN /\ EndCall(NotConnectedError(o))
            /\ wire' = <<>>
            /\ UNCHANGED <<msg_id, issued>>
       ELSE IF ~args_ok
       THEN /\ EndCall(InvalidArgument(o))
            /\ wire' = <<>>
            /\ UNCHANGED <<msg_id, issued>>
       ELSE \* _navigate: self._send("Page.enable")
            SendWrite(o, <<>>, "Page.enable", "", "nav_enable")

search_feeds(keyword_ok) == CallNavigating("search_feeds", keyword_ok)

get_feed_detail(feed_id_ok, xsec_token_ok) ==
    CallNavigating("get_feed_detail", feed_id_ok /\ xsec_token_ok)

publish(has_images) == CallNavigating("publish", has_images)

publish_video(has_video) == CallNavigating("publish_video", has_video)

\* get_content_data up to the recv of its first _send
get_content_data(page_num, page_size) ==
    /\ pc = "idle"
    /\ UNCHANGED restVars
    /\ Room(4)
    /\ FreshCapture
    /\ ret' = NoRet
    /\ UNCHANGED connVars
    /\ IF NotConnected(ws)
       THEN /\ EndCall(NotConnectedError("get_content_data"))
            /\ wire' = <<>>
            /\ UNCHANGED <<msg_id, issued>>
       ELSE IF page_num < 1 \/ page_size < 1
       THEN /\ EndCall(InvalidArgument("get_content_data"))
            /\ wire' = <<>>
            /\ UNCHANGED <<msg_id, issued>>
       ELSE SendWrite("get_content_data", <<>>, "Page.enable", "", "gcd_enable")

\* ------------------------------------------- the capture loop of the method
\* while time.time() < deadline
LoopContinues(t, d) == t < d

\* Variant: the check after the loop is missing.
NoTarget_Never(tid) == FALSE

\* if not target_request_id
NoTarget(tid) == tid = ""

\* isinstance(request_id, str)
IsStr(rid) == rid # NonString

\* Variant: the URL of the request is not compared with the API path.
PathInUrl_Always(u) == TRUE

\* if XHS_CONTENT_DATA_API_PATH not in request_url
PathInUrl(u) == Contains(XHS_CONTENT_DATA_API_PATH, u)

\* Variant: the status of the response is not looked at.
StatusOk_Any(st) == TRUE

\* if status != 200
StatusOk(st) == st = HTTP_OK

\* The code after the loop, up to the recv of the body fetch.
AfterLoop(tid) ==
    IF NoTarget(tid)
    THEN /\ EndCall(TimeoutError(op))
         /\ UNCHANGED <<msg_id, wire, issued>>
    ELSE SendWrite(op, wire, "Network.getResponseBody", tid, "gcd_body")

\* The loop condition is evaluated.
LoopTop ==
    /\ pc = "gcd_top"
    /\ UNCHANGED restVars
    /\ IF LoopContinues(now, deadline)
       THEN /\ pc' = "gcd_recv"
            /\ UNCHANGED <<msg_id, op, msg, data, outcome, wire, issued>>
       ELSE AfterLoop(target_request_id)
    /\ message' = NoFrame
    /\ ret' = NoRet
    /\ UNCHANGED <<connVars, request_url_by_id, target_request_id, target_request_url,
                   now, deadline, announced, hits>>

\* raw = self.ws.recv(timeout=timeout) raises TimeoutError: continue
LoopRecvTimeout ==
    /\ pc = "gcd_recv"
    /\ UNCHANGED restVars
    /\ ws = "open"
    /\ now' = now + RECV_TIMEOUT
    /\ pc' = "gcd_top"
    /\ ret' = NoRet
    /\ UNCHANGED <<connVars, msg_id, op, msg, data, outcome, wire, issued,
                   request_url_by_id, target_request_id, target_request_url,
                   message, deadline, announced, hits>>

\* The completion the capture waits for, by the mapping as recorded so far.
IsTargetCompletion(f, d) ==
    /\ f.method = "Network.responseReceived"
    /\ f.requestId # NonString
    /\ Contains(XHS_CONTENT_DATA_API_PATH, Lookup(d, f.requestId))
    /\ f.status = HTTP_OK

\* The loop goes on to its next iteration.
LoopAgain ==
    /\ pc' = "gcd_top"
    /\ UNCHANGED <<msg_id, op, msg, data, outcome, wire, issued>>

\* recv returns frame f after dt seconds and the loop body handles it.
LoopRecv(f, dt) ==
    /\ pc = "gcd_recv"
    /\ UNCHANGED restVars
    /\ ws = "open"
    /\ message' = f
    /\ now' = now + dt
    /\ announced' = Announce(f)
    /\ hits' = IF IsTargetCompletion(f, request_url_by_id) THEN hits + 1 ELSE hits
    /\ ret' = NoRet
    /\ UNCHANGED <<connVars, deadline>>
    /\ IF f.method = "Network.requestWillBeSent"
       THEN /\ request_url_by_id' =
                  IF IsStr(f.requestId)
                  THEN Store(request_url_by_id, f.requestId, f.url)
                  ELSE request_url_by_id
            /\ LoopAgain
            /\ UNCHANGED <<target_request_id, target_request_url>>
       ELSE IF f.method = "Network.responseReceived"
       THEN IF ~IsStr(f.requestId)
            THEN /\ LoopAgain
                 /\ UNCHANGED <<request_url_by_id, target_request_id, target_request_url>>
            ELSE LET request_url == Lookup(request_url_by_id, f.requestId) IN
                 IF ~PathInUrl(request_url)
                 THEN /\ LoopAgain
                      /\ UNCHANGED <<request_url_by_id, target_request_id, target_request_url>>
                 ELSE IF ~StatusOk(f.status)
                 THEN /\ EndCall(StatusError(op, f.status, request_url))
                      /\ UNCHANGED <<msg_id, wire, issued, request_url_by_id,
                                     target_request_id, target_request_url>>
                 ELSE \* target_request_id = request_id; break
                      /\ target_request_id' = f.requestId
                      /\ target_request_url' = request_url
                      /\ AfterLoop(f.requestId)
                      /\ UNCHANGED request_url_by_id
       ELSE /\ LoopAgain
            /\ UNCHANGED <<request_url_by_id, target_request_id, target_request_url>>

\* ------------------------------------------- get_content_data: the decoding
\* The rest of get_content_data, from the value of the body fetch to the
\* returned dict.  It touches neither the socket nor the id counter.
\*
\* JSON values are records tagged with their Python type.  None stands for
\* Python's None, which dict.get yields for an absent key.
None == "None"

\* The entries of note_infos: a record with its fields set, a record with
\* nothing usable in it, and a JSON value that is not an object.
NoteFull == [t |-> "dict", title |-> "T", id |-> "a1", imp_count |-> "0"]
NoteBare == [t |-> "dict", title |-> "", id |-> None, imp_count |-> None]
NoteNotADict == [t |-> "str", title |-> None, id |-> None, imp_count |-> None]
Notes == {NoteFull, NoteBare, NoteNotADict}

\* Longest note_infos list and longest query drawn.
MaxNotes == 2
MaxParams == 2

SeqsUpTo(S, n) == UNION { [1..k -> S] : k \in 0..n }

\* The value under "note_infos": absent, not a list, or a list.
NoNoteInfos == [t |-> "absent", items |-> <<>>]
NoteInfosValues ==
    {NoNoteInfos, [t |-> "str", items |-> <<>>]}
    \cup { [t |-> "list", items |-> l] : l \in SeqsUpTo(Notes, MaxNotes) }

\* The value under "data": absent, not an object, or an object.
NoData == [t |-> "absent", note_infos |-> NoNoteInfos, total |-> None]
DataValues ==
    {NoData, [t |-> "str", note_infos |-> NoNoteInfos, total |-> None]}
    \cup { [t |-> "dict", note_infos |-> n, total |-> tot] :
             n \in NoteInfosValues, tot \in {None, "1"} }

\* The text of the body: not JSON, JSON that is not an object, or an object.
NotJson == [t |-> "invalid", data |-> NoData]
Payloads ==
    {NotJson, [t |-> "list", data |-> NoData]}
    \cup { [t |-> "dict", data |-> d] : d \in DataValues }

\* The result of Network.getResponseBody: the body as text, or base64-encoded
\* with the flag set.
BodyResults ==
    { [body |-> [enc |-> "plain", text |-> p], base64Encoded |-> FALSE] : p \in Payloads }
    \cup { [body |-> [enc |-> "b64", text |-> p], base64Encoded |-> TRUE] : p \in Payloads }

\* base64.b64decode(body_text).decode("utf-8", errors="replace")
B64Decode(body) == IF body.enc = "b64" THEN body.text ELSE NotJson

\* body_text, and what json.loads makes of it; text still encoded is not JSON.
BodyText(br) ==
    IF br.base64Encoded
    THEN B64Decode(br.body)
    ELSE IF br.body.enc = "plain" THEN br.body.text ELSE NotJson

\* isinstance(x, dict), isinstance(x, list)
IsDict(x) == x.t = "dict"
IsList(x) == x.t = "list"

\* note_infos = data.get("note_infos") if isinstance(data, dict) else [];
\* if not isinstance(note_infos, list): note_infos = []
NoteInfosOf(d) ==
    LET note_infos == IF IsDict(d) THEN d.note_infos ELSE [t |-> "list", items |-> <<>>]
    IN IF IsList(note_infos) THEN note_infos.items ELSE <<>>

\* x or default
OrElse(x, default) == IF x \in {None, ""} THEN default ELSE x

\* _metric_or_dash
metric_or_dash(x) == IF x = None THEN "-" ELSE x

\* One row of the table; the columns not shown are built like imp_count or by
\* formatters that return "-" for what they cannot format.
ContentRow(note) ==
    [title |-> OrElse(note.title, "-"),
     imp_count |-> metric_or_dash(note.imp_count),
     id |-> OrElse(note.id, "")]

\* Variant: records without a title are left out of the table.
map_note_infos_skipping_untitled(note_infos) ==
    LET titled == SelectSeq(note_infos, LAMBDA n : n.title \notin {None, ""})
    IN [i \in DOMAIN titled |-> ContentRow(titled[i])]

\* _map_note_infos_to_content_rows, for a list of objects
map_note_infos_to_content_rows(note_infos) ==
    [i \in DOMAIN note_infos |-> ContentRow(note_infos[i])]

\* note.get(...) on an entry that is not a dict raises AttributeError
AllDicts(note_infos) == \A i \in DOMAIN note_infos : IsDict(note_infos[i])

\* The query of the captured URL: (key, value) pairs in the order written,
\* values being strings of characters.  A value may be blank or no number.
QueryKeys == {"page_num", "page_size", "type"}
QueryValues == {<<>>, <<"2">>, <<"1", "0">>, <<"x">>}
Queries == SeqsUpTo(QueryKeys \X QueryValues, MaxParams)

\* parse_qs(query).get(key): the values given for the key, in order; a pair
\* with a blank value is dropped (keep_blank_values is off).
QueryGet(q, k) ==
    LET kept == SelectSeq(q, LAMBDA kv : kv[1] = k /\ kv[2] # <<>>)
    IN [i \in DOMAIN kept |-> kept[i][2]]

\* (values or [default])[0]
FirstOr(values, default) == IF values = <<>> THEN default ELSE values[1]

Digits ==
    [c \in {"0", "1", "2", "3", "4", "5", "6", "7", "8", "9"} |->
        CASE c = "0" -> 0 [] c = "1" -> 1 [] c = "2" -> 2 [] c = "3" -> 3 [] c = "4" -> 4
          [] c = "5" -> 5 [] c = "6" -> 6 [] c = "7" -> 7 [] c = "8" -> 8 [] c = "9" -> 9]

\* int(text) does not raise ValueError
IsInt(text) == text # <<>> /\ \A i \in DOMAIN text : text[i] \in DOMAIN Digits

\* int(text), for decimal digits
RECURSIVE IntOf(_)
IntOf(text) ==
    IF text = <<>> THEN 0
    ELSE 10 * IntOf(SubSeq(text, 1, Len(text) - 1)) + Digits[text[Len(text)]]

\* The text int() is applied to for a key, given the default of the key.
\* Variant: the parameter of the URL is not read, the default is taken.
ResolvedText_DefaultOnly(q, k, default) == default

\* (query.get(key) or [default])[0]
ResolvedText(q, k, default) == FirstOr(QueryGet(q, k), default)

DEFAULT_PAGE_NUM == <<"1">>
DEFAULT_PAGE_SIZE == <<"1", "0">>
DEFAULT_TYPE == <<"0">>

RequestedArgs == [page_num : {1, 2}, page_size : {10}, note_type : {0}]

NoContentData ==
    [kind |-> "", request_url |-> <<>>,
     requested_page_num |-> 0, requested_page_size |-> 0, requested_type |-> 0,
     resolved_page_num |-> 0, resolved_page_size |-> 0, resolved_type |-> 0,
     total |-> None, count_returned |-> 0, rows |-> <<>>, warning |-> FALSE]

\* The method raises: kind names the exception.
Raises(kind) == [NoContentData EXCEPT !.kind = kind]

\* get_content_data from `body_text = body_result.get("body", "")` on.
DecodedContentData(br, q, req) ==
    LET payload == BodyText(br)
        d == payload.data
        note_infos == NoteInfosOf(d)
        page_num_text == ResolvedText(q, "page_num", DEFAULT_PAGE_NUM)
        page_size_text == ResolvedText(q, "page_size", DEFAULT_PAGE_SIZE)
        type_text == ResolvedText(q, "type", DEFAULT_TYPE)
    IN  IF payload.t = "invalid" THEN Raises("CDPError: Failed to decode")
        ELSE IF ~IsDict(payload) THEN Raises("CDPError: Unexpected structure")
        ELSE IF ~AllDicts(note_infos) THEN Raises("AttributeError")
        ELSE IF ~(IsInt(page_num_text) /\ IsInt(page_size_text) /\ IsInt(type_text))
        THEN Raises("ValueError")
        ELSE LET rows == map_note_infos_to_content_rows(note_infos) IN
             [kind |-> "ok",
              request_url |-> q,
              requested_page_num |-> req.page_num,
              requested_page_size |-> req.page_size,
              requested_type |-> req.note_type,
              resolved_page_num |-> IntOf(page_num_text),
              resolved_page_size |-> IntOf(page_size_text),
              resolved_type |-> IntOf(type_text),
              total |-> IF IsDict(d) THEN d.total ELSE None,
              count_returned |-> Len(rows),
              rows |-> rows,
              warning |-> \/ req.page_num # IntOf(page_num_text)
                          \/ req.page_size # IntOf(page_size_text)
                          \/ req.note_type # IntOf(type_text)]

\* No body is being decoded.
DecodeIdle ==
    /\ body_result = [body |-> [enc |-> "plain", text |-> NotJson], base64Encoded |-> FALSE]
    /\ request_query = <<>>
    /\ requested = [page_num |-> 1, page_size |-> 10, note_type |-> 0]
    /\ content_data = NoContentData

DecodeContentData ==
    /\ content_data = NoContentData
    /\ content_data' = DecodedContentData(body_result, request_query, requested)
    /\ UNCHANGED <<cdpVars, downloaderVars, cliVars, mainVars, filterVars,
                   tabVars, waitVars, body_result, request_query, requested>>

\* ------------------------------------------------ connect: the tab to use
\* Endpoints are sequences: <<>> is the absent or empty webSocketDebuggerUrl,
\* <<i>> the endpoint of the i-th listed target, NewTabEndpoint that of a tab
\* the browser has just created.
NoEndpoint == <<>>
NewTabEndpoint == <<0>>

\* Longest listing drawn.
MaxTargets == 3

\* URLs of tabs, as token sequences; the prefix a caller may pass.
CreatorTabUrl == <<"creator", "publish">>
HomeTabUrl == <<"www", "explore">>
CreatorPrefix == <<"creator">>
NoPrefix == <<>>

\* What a listed target looks like, its endpoint apart.
TargetShapes ==
    [type : {"page", "iframe"}, has_endpoint : BOOLEAN, url : {CreatorTabUrl, HomeTabUrl}]

\* resp.json() of GET /json
Listings ==
    { [i \in DOMAIN shapes |->
          [type |-> shapes[i].type,
           webSocketDebuggerUrl |-> IF shapes[i].has_endpoint THEN <<i>> ELSE NoEndpoint,
           url |-> shapes[i].url]] :
      shapes \in SeqsUpTo(TargetShapes, MaxTargets) }

\* requests.get raised, the status was an error, or the body was no JSON
ListingFailed == [ok |-> FALSE, json |-> <<>>]
ListingReplies == {ListingFailed} \cup { [ok |-> TRUE, json |-> l] : l \in Listings }

\* The outcomes of PUT /json/new: requests.put raised; a reply that is not ok;
\* an ok reply without an endpoint; an ok reply with the endpoint of the tab.
CreateReplies == {"raised", "not ok", "ok, no endpoint", "ok"}

NoTabOutcome == [kind |-> "", ws_url |-> NoEndpoint]
Returned(ws_url) == [kind |-> "ok", ws_url |-> ws_url]
\* raise CDPError(f"Cannot reach Chrome on ...")
CannotReachChrome == [kind |-> "CDPError: Cannot reach Chrome", ws_url |-> NoEndpoint]
\* raise CDPError("No browser tabs available.")
NoTabsAvailable == [kind |-> "CDPError: No browser tabs available", ws_url |-> NoEndpoint]
\* the exception requests.put raised, which nothing catches
RequestException == [kind |-> "RequestException", ws_url |-> NoEndpoint]

\* pages = [t for t in targets if t.get("type") == "page" and t.get("webSocketDebuggerUrl")]
Pages(ts) == SelectSeq(ts, LAMBDA t : t.type = "page" /\ t.webSocketDebuggerUrl # NoEndpoint)

\* Variant: the URL of the tab is not compared with the prefix.
StartsWith_Always(u, prefix) == TRUE

\* t.get("url", "").startswith(target_url_prefix)
StartsWith(u, prefix) == Len(prefix) <= Len(u) /\ SubSeq(u, 1, Len(prefix)) = prefix

\* The pages the loop over pages would return, by position.
Matching(pages, prefix) == { i \in DOMAIN pages : StartsWith(pages[i].url, prefix) }

Min(S) == CHOOSE i \in S : \A j \in S : i <= j

\* Variant: an existing tab is taken whether or not reuse was asked for.
ReuseFirst_Unasked(reuse, pages) == pages # <<>>

\* if reuse_existing_tab and pages
ReuseFirst(reuse, pages) == reuse /\ pages # <<>>

\* Variant: the listing is retried as long as it fails.
LastAttempt_Never(a) == FALSE

\* for attempt in range(2): ... if attempt == 0 ... else raise
LastAttempt(a) == a # 0

\* No connect call is resolving a tab.
TabIdle ==
    /\ tpc = "idle"
    /\ attempt = 0
    /\ http = <<>>
    /\ targets = <<>>
    /\ target_url_prefix = NoPrefix
    /\ reuse_existing_tab = FALSE
    /\ local_host = TRUE
    /\ create_reply = ""
    /\ tab_outcome = NoTabOutcome

\* _find_or_create_tab returns or raises.
Resolved(o) ==
    /\ tpc' = "done"
    /\ tab_outcome' = o

\* connect(target_url_prefix, reuse_existing_tab) is called: _find_or_create_tab
\* calls _get_targets.
connect(prefix, reuse) ==
    /\ tpc = "idle"
    /\ tpc' = "get_targets"
    /\ attempt' = 0
    /\ http' = <<>>
    /\ target_url_prefix' = prefix
    /\ reuse_existing_tab' = reuse
    /\ UNCHANGED <<cdpVars, downloaderVars, cliVars, mainVars, filterVars,
                   decodeVars, waitVars, targets, local_host, create_reply, tab_outcome>>

\* One iteration of the loop of _get_targets, and on a listing the code of
\* _find_or_create_tab up to its return or to the create request.
GetTargets(reply) ==
    /\ tpc = "get_targets"
    /\ UNCHANGED <<cdpVars, downloaderVars, cliVars, mainVars, filterVars,
                   decodeVars, waitVars, target_url_prefix, reuse_existing_tab,
                   local_host, create_reply>>
    /\ IF reply = ListingFailed
       THEN IF LastAttempt(attempt)
            THEN /\ http' = Append(http, "GET /json")
                 /\ Resolved(CannotReachChrome)
                 /\ UNCHANGED <<attempt, targets>>
            ELSE /\ http' = IF local_host
                            THEN http \o <<"GET /json", "ensure_chrome">>
                            ELSE Append(http, "GET /json")
                 /\ attempt' = attempt + 1
                 /\ UNCHANGED <<tpc, targets, tab_outcome>>
       ELSE LET pages == Pages(reply.json) IN
            /\ http' = Append(http, "GET /json")
            /\ targets' = reply.json
            /\ UNCHANGED attempt
            /\ IF target_url_prefix # NoPrefix /\ Matching(pages, target_url_prefix) # {}
               THEN Resolved(Returned(pages[Min(Matching(pages, target_url_prefix))].webSocketDebuggerUrl))
               ELSE IF ReuseFirst(reuse_existing_tab, pages)
               THEN Resolved(Returned(pages[1].webSocketDebuggerUrl))
               ELSE /\ tpc' = "create"
                    /\ UNCHANGED tab_outcome

\* requests.put(".../json/new?...") and the rest of _find_or_create_tab.
CreateTab(reply) ==
    /\ tpc = "create"
    /\ http' = Append(http, "PUT /json/new")
    /\ create_reply' = reply
    /\ UNCHANGED <<cdpVars, downloaderVars, cliVars, mainVars, filterVars,
                   decodeVars, waitVars, attempt, targets, target_url_prefix,
                   reuse_existing_tab, local_host>>
    /\ IF reply = "raised" THEN Resolved(RequestException)
       ELSE IF reply = "ok" THEN Resolved(Returned(NewTabEndpoint))
       ELSE IF Pages(targets) # <<>>
       THEN Resolved(Returned(Pages(targets)[1].webSocketDebuggerUrl))
       ELSE Resolved(NoTabsAvailable)

\* connect after _find_or_create_tab: `if not ws_url: raise`, else the socket
\* is opened and stored.
OpenSocket ==
    /\ tpc = "done"
    /\ outcome.op # "connect"
    /\ Connect(tab_outcome.kind = "ok" /\ tab_outcome.ws_url # NoEndpoint)

\* --------------------------------------- FeedExplorer: _wait_js_condition
\* Time is counted in ticks of one nominal poll interval.  The two callers
\* pass 25.0 s and 0.6 s; here the timeout is any number of ticks up to
\* MaxTimeout, and 0 for a direct call.
MaxTimeout == 3

\* What self._evaluate(condition_js) does: returns a truthy value, returns a
\* falsy one, or raises.
Evaluations == {"truthy", "falsy", "raised"}

\* An evaluation takes no time to speak of, or a tick; a sleep takes the poll
\* interval or, with jitter, up to twice as long.
EvaluateTicks == {0, 1}
SleepTicks == {1, 2}

WaitCallers == {"_wait_for_search_state", "_wait_for_detail_state", "_wait_js_condition"}

\* raise FeedExplorerError("Timed out waiting for ...")
SearchTimedOut == "Timed out waiting for search data in window.__INITIAL_STATE__."
DetailTimedOut == "Timed out waiting for feed detail in window.__INITIAL_STATE__."

\* Variant: the value of the evaluation is not looked at.
Truthy_Never(ok) == FALSE

\* if ok
Truthy(ok) == ok = "truthy"

\* Variant: the exception of an evaluation is not caught.
Caught_Never(ok) == FALSE

\* except Exception: pass
Caught(ok) == ok = "raised"

\* Variant: the loop is left after its first iteration.
Polling_Once(t, d, n) == t < d /\ n = 0

\* while time.time() < deadline, at time t with n evaluations made
Polling(t, d, n) == t < d

\* No wait is running.
WaitIdle ==
    /\ wpc = "idle"
    /\ wait_caller = ""
    /\ timeout_seconds = 0
    /\ wait_now = 0
    /\ wait_deadline = 0
    /\ evals = <<>>
    /\ sleeps = 0
    /\ ready = ""
    /\ wait_error = ""

\* _wait_js_condition returns value to its caller; _wait_for_search_state and
\* _wait_for_detail_state raise on False.
WaitReturns(value) ==
    /\ wpc' = "returned"
    /\ ready' = value
    /\ wait_error' =
         IF value = "True" THEN ""
         ELSE IF wait_caller = "_wait_for_search_state" THEN SearchTimedOut
         ELSE IF wait_caller = "_wait_for_detail_state" THEN DetailTimedOut
         ELSE ""

\* The exception of an evaluation leaves _wait_js_condition.
WaitRaises ==
    /\ wpc' = "returned"
    /\ ready' = "raised"
    /\ wait_error' = "evaluation"

\* deadline = time.time() + timeout_seconds
wait_js_condition(caller, timeout) ==
    /\ wpc = "idle"
    /\ wpc' = "test"
    /\ wait_caller' = caller
    /\ timeout_seconds' = timeout
    /\ wait_deadline' = wait_now + timeout
    /\ UNCHANGED <<cdpVars, downloaderVars, cliVars, mainVars, filterVars,
                   decodeVars, tabVars, wait_now, evals, sleeps, ready, wait_error>>

\* while time.time() < deadline: ...; return False
WaitTest ==
    /\ wpc = "test"
    /\ IF Polling(wait_now, wait_deadline, Len(evals))
       THEN /\ wpc' = "evaluate"
            /\ UNCHANGED <<ready, wait_error>>
       ELSE WaitReturns("False")
    /\ UNCHANGED <<cdpVars, downloaderVars, cliVars, mainVars, filterVars,
                   decodeVars, tabVars, wait_caller, timeout_seconds, wait_now,
                   wait_deadline, evals, sleeps>>

\* ok = self._evaluate(condition_js), which takes dt ticks
WaitEvaluate(ok, dt) ==
    /\ wpc = "evaluate"
    /\ wait_now' = wait_now + dt
    /\ evals' = Append(evals, ok)
    /\ IF Truthy(ok) THEN WaitReturns("True")
       ELSE IF ok = "raised" /\ ~Caught(ok) THEN WaitRaises
       ELSE /\ wpc' = "sleep"
            /\ UNCHANGED <<ready, wait_error>>
    /\ UNCHANGED <<cdpVars, downloaderVars, cliVars, mainVars, filterVars,
                   decodeVars, tabVars, wait_caller, timeout_seconds,
                   wait_deadline, sleeps>>

\* self._sleep(poll_seconds, minimum_seconds=min(0.2, poll_seconds))
WaitSleep(dt) ==
    /\ wpc = "sleep"
    /\ wait_now' = wait_now + dt
    /\ sleeps' = sleeps + 1
    /\ wpc' = "test"
    /\ UNCHANGED <<cdpVars, downloaderVars, cliVars, mainVars, filterVars,
                   decodeVars, tabVars, wait_caller, timeout_seconds,
                   wait_deadline, evals, ready, wait_error>>

\* ------------------------------------------ SearchFilters and the filter engine
\* The option texts of the page, in English.
SORT_BY_OPTIONS ==
    {"comprehensive", "latest", "most_liked", "most_commented", "most_collected"}
NOTE_TYPE_OPTIONS == {"any", "video", "image_text"}
PUBLISH_TIME_OPTIONS == {"any", "one_day", "one_week", "half_year"}
SEARCH_SCOPE_OPTIONS == {"any", "viewed", "not_viewed", "followed"}
LOCATION_OPTIONS == {"any", "same_city", "nearby"}

\* _FILTER_VALUE_OPTIONS, and the order of its keys
FILTER_VALUE_OPTIONS ==
    [sort_by |-> SORT_BY_OPTIONS,
     note_type |-> NOTE_TYPE_OPTIONS,
     publish_time |-> PUBLISH_TIME_OPTIONS,
     search_scope |-> SEARCH_SCOPE_OPTIONS,
     location |-> LOCATION_OPTIONS]
FILTER_NAMES == <<"sort_by", "note_type", "publish_time", "search_scope", "location">>

\* _ALL_FILTER_OPTION_VALUES
ALL_FILTER_OPTION_VALUES ==
    SORT_BY_OPTIONS \cup NOTE_TYPE_OPTIONS \cup PUBLISH_TIME_OPTIONS
        \cup SEARCH_SCOPE_OPTIONS \cup LOCATION_OPTIONS

\* At most MaxSelected dimensions of a selection are given a value.
MaxSelected == 2
\* The values a dimension is given: the empty text, an option of sort_by only,
\* an option of every other dimension, an option of note_type only, a text that
\* is no option.
FilterInputs == {"", "latest", "any", "video", "shuffled"}
SearchFilters ==
    { f \in [DOMAIN FILTER_VALUE_OPTIONS -> FilterInputs \cup {None}] :
        Cardinality({ name \in DOMAIN f : f[name] # None }) <= MaxSelected }

\* if value:
IsSet(value) == value # None /\ value # ""

\* SearchFilters.selected_items
selected_items(f) ==
    LET names == SelectSeq(FILTER_NAMES, LAMBDA name : IsSet(f[name]))
    IN  [i \in 1..Len(names) |-> [name |-> names[i], value |-> f[names[i]]]]

\* Variant: a value is checked against the options of all dimensions.
valid_values_OfAnyDimension(name) == ALL_FILTER_OPTION_VALUES

\* valid_values = _FILTER_VALUE_OPTIONS[name]
valid_values(name) == FILTER_VALUE_OPTIONS[name]

\* Variant: validate raises for nothing.
Rejected_Nothing(f) == <<>>

\* SearchFilters.validate: the items it raises for; it raises for the first.
Rejected(f) ==
    SelectSeq(selected_items(f), LAMBDA item : item.value \notin valid_values(item.name))

\* FeedExplorer._option_ordered_values
ordered_keys == <<"sort_by", "note_type", "publish_time", "search_scope", "location">>

\* Variant: the values are taken in the reverse order.
option_ordered_values_Reversed(f) ==
    LET keys == SelectSeq(<<"location", "search_scope", "publish_time", "note_type", "sort_by">>,
                          LAMBDA key : IsSet(f[key]))
    IN  [i \in 1..Len(keys) |-> f[keys[i]]]

\* values = [filters.sort_by, ..., filters.location]; return [v for v in values if v]
option_ordered_values(f) ==
    LET keys == SelectSeq(ordered_keys, LAMBDA key : IsSet(f[key]))
    IN  [i \in 1..Len(keys) |-> f[keys[i]]]

\* for attempt in range(20)
PANEL_ATTEMPTS == 20
\* for _ in range(8)
OPTION_ATTEMPTS == 8
\* for idx in range(24)
HOVER_ATTEMPTS == 24

\* What a probe of the page gives: a rect, None, or the exception of _evaluate.
ProbeResults == {"rect", "none", "raised"}
\* What the script of the fallback gives: {ok: true}, {ok: false, reason: ...},
\* something that is no dict, or the exception of _evaluate.
JsResults ==
    {"ok", "filter_button_not_found", "filter_panel_not_found", "option_not_found",
     "not_a_dict", "raised"}
\* What the evaluation of _extract_search_feeds gives.
FeedPayloads == {"feeds", "empty", "not_a_string", "bad_json", "not_a_list", "raised"}

\* The errors of a call.
NoError == [kind |-> "", value |-> "", reason |-> "", hover |-> ""]
Error(kind, value, reason) == [kind |-> kind, value |-> value, reason |-> reason, hover |-> ""]
SearchNotConnected == Error("CDPError", "", "Not connected. Call connect() first.")
KeywordEmpty == Error("CDPError", "", "Keyword cannot be empty.")
SearchStateTimedOut == Error("FeedExplorerError", "", SearchTimedOut)
EvaluationRaised == Error("CDPError", "", "evaluation")
\* f"Invalid value for {name}: {value}. Valid options: ..."
InvalidValue(item) == Error("FeedExplorerError", item.value, "Invalid value for " \o item.name)
\* "Search feed payload is not a JSON string." and the like
BadPayload(raw) == Error("FeedExplorerError", "", raw)

\* No call is running.
EngIdle ==
    [pc |-> "idle", values |-> <<>>, vi |-> 0, tries |-> 0, opens |-> 0, from |-> "",
     session |-> "", hover_reason |-> "", hover_failed |-> {}, probes |-> "none",
     open_report |-> "", panel_probes |-> <<>>, panel_opened |-> FALSE, failed_at |-> 0,
     error |-> NoError]

FilterIdle ==
    /\ filters = [name \in DOMAIN FILTER_VALUE_OPTIONS |-> None]
    /\ has_move = FALSE
    /\ has_click = FALSE
    /\ eng = EngIdle
    /\ validated = ""
    /\ navigated = FALSE
    /\ evaluated = FALSE
    /\ pointer_moved = FALSE
    /\ pointer = <<>>
    /\ clicks = <<>>
    /\ fallbacks = <<>>

\* raise
Fail(e, err) == [e EXCEPT !.pc = "failed", !.error = err]

\* return self._extract_search_feeds()
Extract(e) == [e EXCEPT !.pc = "extract"]

\* Variant: the hover path is taken whatever callbacks were supplied.
HasPointer_Always == TRUE

\* if self._move_mouse and self._click_mouse
HasPointer == has_move /\ has_click

\* _apply_single_filter(values[i]): hover first when the pointer is there, else
\* the script fallback at once.
apply_single_filter(e, i) ==
    [e EXCEPT !.vi = i, !.tries = 0, !.hover_reason = "", !.probes = "none",
              !.pc = IF HasPointer THEN "hover_button" ELSE "js"]

\* for value in values: the loop starts at the first value.
FallbackStart(e) == 1

\* for value in values: self._apply_single_filter(value)
FallbackLoop(e) ==
    IF FallbackStart(e) <= Len(e.values) THEN apply_single_filter(e, FallbackStart(e))
    ELSE Extract(e)

\* The next value of that loop, after the wait of the previous one.
NextFallbackValue(e) ==
    IF e.vi < Len(e.values) THEN apply_single_filter(e, e.vi + 1) ELSE Extract(e)

\* _apply_filters_in_single_panel returns (False, reason): search_feeds goes to
\* the loop of _apply_single_filter.
SessionFails(e, reason) ==
    FallbackLoop([e EXCEPT !.session = reason, !.failed_at = e.vi, !.opens = 0,
                           !.from = "", !.tries = 0])

\* The next turn of "for _ in range(8)", or the end of the loop without a click.
SessionContinue(e) ==
    IF e.tries + 1 < OPTION_ATTEMPTS
    THEN [e EXCEPT !.pc = "session_option", !.tries = @ + 1]
    ELSE SessionFails(e, "option_not_found")

\* applied = True; break: the next value, or return (True, "ok") and the sleep
\* and wait of search_feeds.
SessionApplied(e) ==
    IF e.vi < Len(e.values)
    THEN [e EXCEPT !.pc = "session_option", !.vi = @ + 1, !.tries = 0]
    ELSE [e EXCEPT !.pc = "wait_after_session", !.session = "ok", !.opens = 0,
                   !.from = "", !.tries = 0]

\* _open_filter_panel_via_hover_mouse returns (opened, reason) to the place in
\* _apply_filters_in_single_panel that called it.
OpenReturns(e0, opened, reason) ==
    LET e == [e0 EXCEPT !.open_report = reason, !.panel_opened = @ \/ opened]
    IN  IF e.from = "session_start"
        THEN IF opened THEN [e EXCEPT !.pc = "session_option", !.vi = 1, !.tries = 0]
             ELSE SessionFails(e, reason)
        ELSE IF opened THEN [e EXCEPT !.pc = "session_option2"]
             ELSE SessionContinue(e)

\* The next turn of "for attempt in range(20)", or return (False, ...).
OpenAttemptFails(e) ==
    IF e.opens + 1 < PANEL_ATTEMPTS
    THEN [e EXCEPT !.pc = "open_probe", !.opens = @ + 1]
    ELSE OpenReturns(e, FALSE, "filter_panel_not_found")

\* _try_apply_filter_via_hover_mouse returns (False, reason): _apply_single_filter
\* goes to the script fallback.
HoverFails(e, reason) ==
    [e EXCEPT !.pc = "js", !.hover_reason = reason, !.hover_failed = @ \cup {e.vi}]

\* Variant: after the click of the hover path the script fallback is called too.
HoverClicked_ThenFallback(e) == [e EXCEPT !.pc = "js"]

\* if hover_ok: self._sleep(...); self._wait_for_search_state(); return
HoverClicked(e) == [e EXCEPT !.pc = "wait_after_value"]

\* The next turn of "for idx in range(24)", or return (False, "option_not_found").
HoverContinue(e) ==
    IF e.tries + 1 < HOVER_ATTEMPTS
    THEN [e EXCEPT !.pc = "hover_panel", !.tries = @ + 1]
    ELSE HoverFails(e, "option_not_found")

\* reason = js_result.get("reason", "unknown");
\* if hover_reason and hover_reason != reason: reason = f"{reason} (hover_attempt=...)";
\* raise FeedExplorerError(f"Failed to apply search filter '{filter_value}': {reason}")
ApplyFails(e, reason) ==
    Fail(e, [kind |-> "FeedExplorerError", value |-> e.values[e.vi], reason |-> reason,
             hover |-> IF e.hover_reason # "" /\ e.hover_reason # reason
                       THEN e.hover_reason ELSE ""])

\* What the probes of the panel found in this _apply_single_filter so far.
Probed(e, found) ==
    [e EXCEPT !.probes = IF found \/ @ = "seen" THEN "seen" ELSE "missing"]

\* The open procedure has returned to its caller and the caller to its own: what
\* the procedure saw and reported is gone.
OpenIsOver(e) == [e EXCEPT !.open_report = "", !.panel_probes = <<>>]

\* filters.validate(); values = self._option_ordered_values(filters); then the
\* single session when there are values and a pointer, else the loop.
AfterFirstWait(e) ==
    IF Rejected(filters) # <<>> THEN Fail(e, InvalidValue(Rejected(filters)[1]))
    ELSE LET e1 == [e EXCEPT !.values = option_ordered_values(filters)]
         IN  IF e1.values # <<>> /\ HasPointer
             THEN [e1 EXCEPT !.pc = "open_button", !.from = "session_start", !.opens = 0]
             ELSE FallbackLoop(e1)

\* The places the pointer is sent to: the centre of the filter button (bx, by),
\* the point near it (bx - 18, by + 18), the point below it (bx, by + 12), the
\* three points inside the panel (enter_x, enter_y), (keep_x, keep_y), (px, py),
\* and the centre (ox, oy) of the element found for an option text.
Place(at) == [at |-> at, group |-> "", text |-> ""]
OptionCentre(group, text) == [at |-> "option", group |-> group, text |-> text]

\* The panel of the page: one group of options for each dimension, laid out in
\* the order of _option_ordered_values ("deterministic UI order").
PanelGroups == ordered_keys

\* _find_filter_option_rect, and findOption of the script: the first element of
\* the panel whose text is the target text. The group it stands in is the first
\* group of the panel that has an option of that text.
find_filter_option(text) ==
    LET holding == SelectSeq(PanelGroups, LAMBDA g : text \in FILTER_VALUE_OPTIONS[g])
    IN  IF holding = <<>> THEN "" ELSE holding[1]

\* Of the pointer events dispatched, those from the last move but one on are kept.
Moves(events) == { k \in 1..Len(events) : events[k].type = "mouseMoved" }
Latest(indices) == CHOOSE k \in indices : \A j \in indices : j <= k
Kept(events) ==
    IF Cardinality(Moves(events)) <= 2 THEN events
    ELSE LET before == Moves(events) \ {Latest(Moves(events))}
         IN  SubSeq(events, Latest(before), Len(events))

\* XiaohongshuPublisher._move_mouse: one mouseMoved
move_mouse(events, point) == Kept(Append(events, [type |-> "mouseMoved", point |-> point]))

\* XiaohongshuPublisher._click_mouse: for event_type in ("mousePressed", "mouseReleased")
click_mouse(events, point) ==
    Kept(events \o <<[type |-> "mousePressed", point |-> point],
                     [type |-> "mouseReleased", point |-> point]>>)

\* self._move_mouse(ox, oy); self._click_mouse(ox, oy) on the element found for
\* values[i]
move_and_click(events, e) ==
    LET centre == OptionCentre(find_filter_option(e.values[e.vi]), e.values[e.vi])
    IN  click_mouse(move_mouse(events, centre), centre)

\* The record of a click on the element found for values[i].
Clicked(e, by) ==
    [i |-> e.vi, by |-> by, text |-> e.values[e.vi],
     group |-> find_filter_option(e.values[e.vi])]

\* Variant: every attempt moves to the centre of the button.
AttemptPoint_CentreOnly(turn) == Place("button")

\* if attempt == 0: (bx, by); elif attempt % 2 == 0: (near_x, near_y); else: (bx, by)
AttemptPoint(turn) ==
    IF turn = 0 THEN Place("button")
    ELSE IF turn % 2 = 0 THEN Place("near")
    ELSE Place("button")

\* if idx % 2 == 0: (bx, by); else: (bx, by + 12.0)
HoverTurnPoint(idx) == IF idx % 2 = 0 THEN Place("button") ELSE Place("below")

\* The last two probes of the panel in this call of the open procedure.
PanelProbed(e, r) ==
    [e EXCEPT !.panel_probes = IF Len(@) < 2 THEN Append(@, r) ELSE <<@[2], r>>]

filterLog == <<navigated, evaluated, pointer_moved, pointer, clicks, fallbacks>>
filterArgs == <<filters, has_move, has_click>>
notFilterVars ==
    <<cdpVars, decodeVars, tabVars, waitVars, mainVars, cliVars, downloaderVars>>

\* XiaohongshuPublisher.search_feeds up to explorer.search_feeds(...)
publisher_search_feeds(connected, keyword_ok) ==
    /\ eng.pc = "idle"
    /\ IF ~connected THEN eng' = Fail(eng, SearchNotConnected) /\ UNCHANGED navigated
       ELSE IF ~keyword_ok THEN eng' = Fail(eng, KeywordEmpty) /\ UNCHANGED navigated
       ELSE /\ navigated' = TRUE
            /\ eng' = [eng EXCEPT !.pc = "wait_initial"]
    /\ UNCHANGED <<notFilterVars, filterArgs, validated, evaluated, pointer_moved, pointer,
                   clicks, fallbacks>>

\* FeedExplorer.search_feeds called on a page that is already there
explorer_search_feeds ==
    /\ eng.pc = "idle"
    /\ eng' = [eng EXCEPT !.pc = "wait_initial"]
    /\ UNCHANGED <<notFilterVars, filterArgs, validated, filterLog>>

\* self._wait_for_search_state(), at each of its three places
WaitForSearchState(is_ready) ==
    /\ eng.pc \in {"wait_initial", "wait_after_session", "wait_after_value"}
    /\ evaluated' = TRUE
    /\ eng' = IF ~is_ready THEN Fail(OpenIsOver(eng), SearchStateTimedOut)
              ELSE IF eng.pc = "wait_initial" THEN AfterFirstWait(eng)
              ELSE IF eng.pc = "wait_after_session" THEN Extract(OpenIsOver(eng))
              ELSE NextFallbackValue(eng)
    /\ validated' = IF is_ready /\ eng.pc = "wait_initial"
                    THEN IF Rejected(filters) # <<>> THEN "rejected" ELSE "accepted"
                    ELSE validated
    /\ UNCHANGED <<notFilterVars, filterArgs, navigated, pointer_moved, pointer, clicks,
                   fallbacks>>

\* _open_filter_panel_via_hover_mouse: button_rect = self._find_filter_button_rect(),
\* and the move of attempt 0
FindFilterButton(r) ==
    /\ eng.pc = "open_button"
    /\ evaluated' = TRUE
    /\ LET e == [eng EXCEPT !.open_report = "", !.panel_probes = <<>>]
       IN  eng' = IF r = "raised" THEN Fail(e, EvaluationRaised)
                  ELSE IF r = "none" THEN OpenReturns(e, FALSE, "filter_button_not_found")
                  ELSE [e EXCEPT !.pc = "open_probe", !.opens = 0]
    /\ pointer_moved' = (pointer_moved \/ r = "rect")
    /\ pointer' = IF r = "rect" THEN move_mouse(pointer, AttemptPoint(0)) ELSE pointer
    /\ UNCHANGED <<notFilterVars, filterArgs, validated, navigated, clicks, fallbacks>>

\* panel_rect = self._find_filter_panel_rect() of an attempt; the move into the
\* panel, or the move of the next attempt
ProbePanel(r) ==
    /\ eng.pc = "open_probe"
    /\ evaluated' = TRUE
    /\ eng' = IF r = "raised" THEN Fail(eng, EvaluationRaised)
              ELSE IF r = "rect" THEN [PanelProbed(eng, r) EXCEPT !.pc = "open_confirm"]
              ELSE OpenAttemptFails(PanelProbed(eng, r))
    /\ pointer_moved' = (pointer_moved \/ r = "rect" \/ eng'.pc = "open_probe")
    /\ pointer' = IF r = "rect" THEN move_mouse(pointer, Place("panel_enter"))
                  ELSE IF eng'.pc = "open_probe"
                       THEN move_mouse(pointer, AttemptPoint(eng'.opens))
                  ELSE pointer
    /\ UNCHANGED <<notFilterVars, filterArgs, validated, navigated, clicks, fallbacks>>

\* if self._find_filter_panel_rect(): return True, "ok"
ConfirmPanel(r) ==
    /\ eng.pc = "open_confirm"
    /\ evaluated' = TRUE
    /\ eng' = IF r = "raised" THEN Fail(eng, EvaluationRaised)
              ELSE IF r = "rect" THEN OpenReturns(PanelProbed(eng, r), TRUE, "ok")
              ELSE OpenAttemptFails(PanelProbed(eng, r))
    /\ pointer_moved' = (pointer_moved \/ eng'.pc = "open_probe")
    /\ pointer' = IF eng'.pc = "open_probe"
                  THEN move_mouse(pointer, AttemptPoint(eng'.opens))
                  ELSE pointer
    /\ UNCHANGED <<notFilterVars, filterArgs, validated, navigated, clicks, fallbacks>>

\* The click of the session on values[vi]: move, click, then the probe of the panel.
SessionClick ==
    /\ pointer_moved' = TRUE
    /\ pointer' = move_and_click(pointer, eng)
    /\ clicks' = Append(clicks, Clicked(eng, "session"))
    /\ eng' = [eng EXCEPT !.pc = "session_keep"]

\* option_rect = self._find_filter_option_rect(value), first in a turn; without
\* it the panel is opened again
SessionFindOption(r) ==
    /\ eng.pc = "session_option"
    /\ evaluated' = TRUE
    /\ IF r = "rect" THEN SessionClick
       ELSE /\ eng' = IF r = "raised" THEN Fail(eng, EvaluationRaised)
                      ELSE [eng EXCEPT !.pc = "open_button", !.from = "session_retry"]
            /\ UNCHANGED <<pointer_moved, pointer, clicks>>
    /\ UNCHANGED <<notFilterVars, filterArgs, validated, navigated, fallbacks>>

\* option_rect = self._find_filter_option_rect(value), after the panel was
\* opened again
SessionFindOptionAgain(r) ==
    /\ eng.pc = "session_option2"
    /\ evaluated' = TRUE
    /\ IF r = "rect" THEN SessionClick
       ELSE /\ eng' = IF r = "raised" THEN Fail(eng, EvaluationRaised)
                      ELSE SessionContinue(eng)
            /\ UNCHANGED <<pointer_moved, pointer, clicks>>
    /\ UNCHANGED <<notFilterVars, filterArgs, validated, navigated, fallbacks>>

\* panel_rect = self._find_filter_panel_rect() after the click;
\* if panel_rect: self._move_mouse(keep_x, keep_y)
SessionKeepPanel(r) ==
    /\ eng.pc = "session_keep"
    /\ evaluated' = TRUE
    /\ eng' = IF r = "raised" THEN Fail(eng, EvaluationRaised) ELSE SessionApplied(eng)
    /\ pointer' = IF r = "rect" THEN move_mouse(pointer, Place("panel_keep")) ELSE pointer
    /\ UNCHANGED <<notFilterVars, filterArgs, validated, navigated, pointer_moved, clicks,
                   fallbacks>>

\* _try_apply_filter_via_hover_mouse: button_rect = self._find_filter_button_rect(),
\* and the move onto the button
HoverFindButton(r) ==
    /\ eng.pc = "hover_button"
    /\ evaluated' = TRUE
    /\ eng' = IF r = "raised" THEN Fail(OpenIsOver(eng), EvaluationRaised)
              ELSE IF r = "none" THEN HoverFails(OpenIsOver(eng), "filter_button_not_found")
              ELSE [OpenIsOver(eng) EXCEPT !.pc = "hover_panel", !.tries = 0]
    /\ pointer_moved' = (pointer_moved \/ r = "rect")
    /\ pointer' = IF r = "rect" THEN move_mouse(pointer, Place("button")) ELSE pointer
    /\ UNCHANGED <<notFilterVars, filterArgs, validated, navigated, clicks, fallbacks>>

\* panel_rect = self._find_filter_panel_rect() of a turn;
\* if panel_rect: self._move_mouse(px, py)
HoverProbePanel(r) ==
    /\ eng.pc = "hover_panel"
    /\ evaluated' = TRUE
    /\ eng' = IF r = "raised" THEN Fail(eng, EvaluationRaised)
              ELSE [Probed(eng, r = "rect") EXCEPT !.pc = "hover_option"]
    /\ pointer' = IF r = "rect" THEN move_mouse(pointer, Place("panel_corner")) ELSE pointer
    /\ UNCHANGED <<notFilterVars, filterArgs, validated, navigated, pointer_moved, clicks,
                   fallbacks>>

\* option_rect = self._find_filter_option_rect(filter_value) of a turn: move and
\* click and return (True, "ok"), then the sleep and wait of _apply_single_filter;
\* or the move of the turn
HoverFindOption(r) ==
    /\ eng.pc = "hover_option"
    /\ evaluated' = TRUE
    /\ eng' = IF r = "raised" THEN Fail(eng, EvaluationRaised)
              ELSE IF r = "rect" THEN HoverClicked(eng)
              ELSE HoverContinue(eng)
    /\ clicks' = IF r = "rect" THEN Append(clicks, Clicked(eng, "hover")) ELSE clicks
    /\ pointer' = IF r = "rect" THEN move_and_click(pointer, eng)
                  ELSE IF r = "none" THEN move_mouse(pointer, HoverTurnPoint(eng.tries))
                  ELSE pointer
    /\ UNCHANGED <<notFilterVars, filterArgs, validated, navigated, pointer_moved, fallbacks>>

\* js_result = self._apply_single_filter_js_fallback(filter_value), and what
\* _apply_single_filter does with it
JsFallback(result) ==
    /\ eng.pc = "js"
    /\ evaluated' = TRUE
    /\ fallbacks' = Append(fallbacks, [i |-> eng.vi, result |-> result])
    /\ clicks' = IF result = "ok" THEN Append(clicks, Clicked(eng, "script")) ELSE clicks
    /\ LET e == OpenIsOver(eng)
       IN  eng' =
             IF result = "raised" THEN Fail(e, EvaluationRaised)
             ELSE IF result = "ok" THEN [Probed(e, TRUE) EXCEPT !.pc = "wait_after_value"]
             ELSE IF result = "option_not_found" THEN ApplyFails(Probed(e, TRUE), result)
             ELSE IF result = "filter_panel_not_found"
                  THEN ApplyFails(Probed(e, FALSE), result)
             ELSE IF result = "filter_button_not_found" THEN ApplyFails(e, result)
             ELSE ApplyFails(e, "unknown")
    /\ UNCHANGED <<notFilterVars, filterArgs, validated, navigated, pointer_moved, pointer>>

\* _extract_search_feeds
ExtractSearchFeeds(raw) ==
    /\ eng.pc = "extract"
    /\ evaluated' = TRUE
    /\ eng' = IF raw = "raised" THEN Fail(eng, EvaluationRaised)
              ELSE IF raw \in {"feeds", "empty"} THEN [eng EXCEPT !.pc = "done"]
              ELSE Fail(eng, BadPayload(raw))
    /\ UNCHANGED <<notFilterVars, filterArgs, validated, navigated, pointer_moved, pointer,
                   clicks, fallbacks>>

\* ------------------------------------------------------ publish_pipeline.main
\* Exit codes: 0 = success, 1 = not logged in, 2 = error
EXIT_SUCCESS == 0
EXIT_NOT_LOGGED_IN == 1
EXIT_ERROR == 2
\* The exit code of a run that ends in an exception nothing catches.
EXIT_UNCAUGHT == 1

\* The media arguments: one of --image-urls, --images, --video, --video-url.
MediaArgs == {"image_urls", "images", "video", "video_url"}
PipelineArgs ==
    [preview : BOOLEAN, auto_publish : BOOLEAN, headless : BOOLEAN,
     auto_like_collect : BOOLEAN, media : MediaArgs]
NoArgs ==
    [preview |-> FALSE, auto_publish |-> FALSE, headless |-> FALSE,
     auto_like_collect |-> FALSE, media |-> "images"]

\* What a call of the publisher or of the page does: it returns, or raises CDPError.
Calls == {"returned", "CDPError"}

\* main has not started.
MainIdle ==
    /\ args = NoArgs
    /\ ppc = "start"
    /\ exit_code = EXIT_SUCCESS
    /\ printed = {}
    /\ logged_in = ""
    /\ downloads = 0
    /\ fills = 0
    /\ publish_clicks = 0
    /\ note_link = None
    /\ downloader = "None"
    /\ steps = <<>>

\* sys.exit(code)
SysExit(code) == ppc' = "exited" /\ exit_code' = code

\* is_video_mode = bool(args.video or args.video_url)
is_video_mode == args.media \in {"video", "video_url"}

\* Variant: --preview does not hold the click back.
should_publish_WithoutPreview == args.auto_publish

\* should_publish = args.auto_publish and not args.preview
should_publish == args.auto_publish /\ ~args.preview

notMainVars ==
    <<cdpVars, decodeVars, tabVars, waitVars, filterVars, cliVars, downloaderVars>>

mainLog == <<printed, logged_in, downloads, fills, publish_clicks, note_link>>

\* Resolve title, resolve content: sys.exit(2) when one is empty.
ResolveTexts(title_ok, content_ok) ==
    /\ ppc = "start"
    /\ IF title_ok /\ content_ok THEN ppc' = "ensure_chrome" /\ UNCHANGED exit_code
       ELSE SysExit(EXIT_ERROR)
    /\ UNCHANGED <<notMainVars, args, mainLog, downloader, steps>>

\* Step 1: if not ensure_chrome(...): sys.exit(2)
EnsureChrome(started) ==
    /\ ppc = "ensure_chrome"
    /\ IF started
       THEN ppc' = "connect" /\ steps' = Append(steps, "ensure_chrome") /\ UNCHANGED exit_code
       ELSE SysExit(EXIT_ERROR) /\ UNCHANGED steps
    /\ UNCHANGED <<notMainVars, args, mainLog, downloader>>

\* Step 2: publisher.connect()
PipelineConnect(call) ==
    /\ ppc = "connect"
    /\ IF call = "returned" THEN ppc' = "check_login" /\ UNCHANGED exit_code
       ELSE SysExit(EXIT_ERROR)
    /\ UNCHANGED <<notMainVars, args, mainLog, downloader, steps>>

\* print("NOT_LOGGED_IN"); sys.exit(1)
ExitNotLoggedIn ==
    /\ printed' = printed \cup {"NOT_LOGGED_IN"}
    /\ SysExit(EXIT_NOT_LOGGED_IN)

\* logged_in = publisher.check_login(); if not logged_in: publisher.disconnect();
\* headless: restart_chrome(headless=False) and on to publisher.connect()
CheckLogin(result) ==
    /\ ppc = "check_login"
    /\ IF result = "CDPError"
       THEN SysExit(EXIT_ERROR) /\ UNCHANGED <<logged_in, printed>>
       ELSE /\ logged_in' = result
            /\ IF result = "True" THEN ppc' = "media" /\ UNCHANGED <<exit_code, printed>>
               ELSE IF args.headless
                    THEN ppc' = "reconnect" /\ UNCHANGED <<exit_code, printed>>
                    ELSE ExitNotLoggedIn
    /\ steps' = IF result = "True" THEN Append(steps, "check_login") ELSE steps
    /\ UNCHANGED <<notMainVars, args, downloads, fills, publish_clicks, note_link, downloader>>

\* publisher.connect() after restart_chrome, inside the same try
Reconnect(call) ==
    /\ ppc = "reconnect"
    /\ IF call = "returned" THEN ppc' = "open_login_page" /\ UNCHANGED exit_code
       ELSE SysExit(EXIT_ERROR)
    /\ UNCHANGED <<notMainVars, args, mainLog, downloader, steps>>

\* publisher.open_login_page(), inside the same try; then NOT_LOGGED_IN
OpenLoginPage(call) ==
    /\ ppc = "open_login_page"
    /\ IF call = "returned" THEN ExitNotLoggedIn
       ELSE SysExit(EXIT_ERROR) /\ UNCHANGED printed
    /\ UNCHANGED <<notMainVars, args, logged_in, downloads, fills, publish_clicks, note_link,
                   downloader, steps>>

\* What Step 3 comes to: the media are there; they are not (every image download
\* failed, a local file is missing); download_video raised.
MediaOutcomes == {"ready", "missing", "raised"}

\* download_video returns the path or raises requests.RequestException, which
\* nothing in main catches; download_all catches what download raises; the local
\* files are only looked at.
MediaOutcomesOf(media) ==
    IF media = "video_url" THEN {"ready", "raised"} ELSE {"ready", "missing"}

\* Step 3: the video or the images are downloaded, or the local files are checked.
\* downloader = ImageDownloader(temp_dir=args.temp_dir) for the two URL arguments;
\* if not image_paths: sys.exit(2), and the like
PrepareMedia(got) ==
    /\ ppc = "media"
    /\ got \in MediaOutcomesOf(args.media)
    /\ downloads' = IF args.media \in {"video_url", "image_urls"} THEN downloads + 1
                    ELSE downloads
    /\ downloader' = IF args.media \in {"video_url", "image_urls"} THEN "created"
                     ELSE downloader
    /\ IF got = "ready"
       THEN ppc' = "fill" /\ steps' = Append(steps, "prepare_media") /\ UNCHANGED exit_code
       ELSE /\ SysExit(IF got = "raised" THEN EXIT_UNCAUGHT ELSE EXIT_ERROR)
            /\ UNCHANGED steps
    /\ UNCHANGED <<notMainVars, args, printed, logged_in, fills, publish_clicks, note_link>>

\* if downloader: downloader.cleanup()
cleanup_if_downloader(d) == IF d = "None" THEN d ELSE "cleaned"

\* Step 4: publisher.publish_video(...) or publisher.publish(...), _select_topics;
\* then should_publish decides on Step 5
FillForm(call) ==
    /\ ppc = "fill"
    /\ fills' = fills + 1
    /\ IF call = "CDPError"
       THEN /\ downloader' = cleanup_if_downloader(downloader)
            /\ SysExit(EXIT_ERROR)
            /\ UNCHANGED <<printed, steps>>
       ELSE /\ printed' = printed \cup {"FILL_STATUS: READY_TO_PUBLISH"}
            /\ steps' = Append(steps, "fill_form")
            /\ ppc' = IF should_publish THEN "click_publish" ELSE "like_collect"
            /\ UNCHANGED <<exit_code, downloader>>
    /\ UNCHANGED <<notMainVars, args, logged_in, downloads, publish_clicks, note_link>>

\* What _click_publish does: the button is not found; it is clicked and the
\* evaluation for the link raises; it is clicked and a link or None comes back.
ClickResults == {"not_found", "clicked_then_raised", "no_link", "link"}

\* Step 5: note_link = publisher._click_publish()
ClickPublish(result) ==
    /\ ppc = "click_publish"
    /\ publish_clicks' = IF result = "not_found" THEN publish_clicks ELSE publish_clicks + 1
    /\ steps' = IF result = "not_found" THEN steps ELSE Append(steps, "click_publish")
    /\ IF result \in {"not_found", "clicked_then_raised"}
       THEN /\ downloader' = cleanup_if_downloader(downloader)
            /\ SysExit(EXIT_ERROR)
            /\ UNCHANGED <<printed, note_link>>
       ELSE /\ note_link' = IF result = "link" THEN "link" ELSE None
            /\ printed' = printed \cup {"PUBLISH_STATUS: PUBLISHED"}
            /\ ppc' = "like_collect"
            /\ UNCHANGED <<exit_code, downloader>>
    /\ UNCHANGED <<notMainVars, args, logged_in, downloads, fills>>

\* Variant: like and collect need no link.
should_like_collect_WithoutLink == args.auto_like_collect

\* if args.auto_like_collect and note_link
should_like_collect == args.auto_like_collect /\ note_link # None

\* Step 6: like and collect in a new tab, whatever is raised there being printed
\* only
LikeCollect(call) ==
    /\ ppc = "like_collect"
    /\ ppc' = "cleanup"
    /\ IF should_like_collect THEN steps' = Append(steps, "like_collect")
       ELSE call = "returned" /\ UNCHANGED steps
    /\ UNCHANGED <<notMainVars, args, exit_code, mainLog, downloader>>

\* publisher.disconnect(); if downloader: downloader.cleanup(); print("[pipeline] Done.")
Cleanup ==
    /\ ppc = "cleanup"
    /\ ppc' = "exited"
    /\ downloader' = cleanup_if_downloader(downloader)
    /\ UNCHANGED <<notMainVars, args, exit_code, mainLog, steps>>

\* ------------------------------------------------------------ cdp_publish.main
Commands == {"check-login", "fill", "publish", "click-publish"}
CliArgs == [command : Commands, media : {"images", "video"}, local_mode : BOOLEAN]
NoCliArgs == [command |-> "check-login", media |-> "images", local_mode |-> FALSE]

\* The steps of XiaohongshuPublisher.publish and publish_video, after their guards.
PublishSteps ==
    <<"_navigate", "_click_image_text_tab", "_upload_images", "_fill_title", "_fill_content">>
PublishVideoSteps ==
    <<"_navigate", "_click_video_tab", "_upload_video", "_wait_video_processing",
      "_fill_title", "_fill_content">>

\* if getattr(args, "video", None): publish_video(...) else: publish(...)
FillSteps == IF cli.media = "video" THEN PublishVideoSteps ELSE PublishSteps

\* main has not started.
CliIdle ==
    /\ cli = NoCliArgs
    /\ cpc = "start"
    /\ fill_steps = <<>>
    /\ fill_result = ""
    /\ cli_clicks = 0
    /\ cli_printed = {}
    /\ cli_end = ""

\* main is left, through finally: publisher.disconnect() where the try was entered.
CliEnds(how) == cpc' = "exited" /\ cli_end' = how

\* Variant: the click follows the fill for every command.
ClicksAfterFill_Always == TRUE

\* if args.command == "publish": publisher._click_publish()
ClicksAfterFill == cli.command = "publish"

notCliVars ==
    <<cdpVars, decodeVars, tabVars, waitVars, filterVars, mainVars, downloaderVars>>

\* if local_mode: if not ensure_chrome(...): sys.exit(1); then the branch of the
\* command
CliEnsureChrome(started) ==
    /\ cpc = "start"
    /\ IF cli.local_mode /\ ~started THEN CliEnds("sys.exit(1)")
       ELSE /\ cpc' = IF cli.command \in {"fill", "publish"} THEN "content" ELSE "connect"
            /\ UNCHANGED cli_end
    /\ UNCHANGED <<notCliVars, cli, fill_steps, fill_result, cli_clicks, cli_printed>>

\* fill, publish: if not content: sys.exit(1)
CliContent(content_ok) ==
    /\ cpc = "content"
    /\ IF content_ok THEN cpc' = "connect" /\ UNCHANGED cli_end
       ELSE CliEnds("sys.exit(1)")
    /\ UNCHANGED <<notCliVars, cli, fill_steps, fill_result, cli_clicks, cli_printed>>

\* publisher.connect(...)
CliConnect(call) ==
    /\ cpc = "connect"
    /\ IF call = "CDPError" THEN CliEnds("CDPError")
       ELSE /\ cpc' = IF cli.command = "check-login" THEN "check_login"
                      ELSE IF cli.command = "click-publish" THEN "click_publish"
                      ELSE "fill"
            /\ UNCHANGED cli_end
    /\ UNCHANGED <<notCliVars, cli, fill_steps, fill_result, cli_clicks, cli_printed>>

\* check-login: logged_in = publisher.check_login(); sys.exit(0 if logged_in else 1)
CliCheckLogin(result) ==
    /\ cpc = "check_login"
    /\ CliEnds(IF result = "CDPError" THEN "CDPError"
               ELSE IF result = "True" THEN "sys.exit(0)" ELSE "sys.exit(1)")
    /\ UNCHANGED <<notCliVars, cli, fill_steps, fill_result, cli_clicks, cli_printed>>

\* One step of publisher.publish or publisher.publish_video; after the last one
\* FILL_STATUS is printed and the command decides on the click.
CliFillStep(call) ==
    /\ cpc = "fill"
    /\ IF call = "CDPError"
       THEN /\ fill_result' = "CDPError"
            /\ CliEnds("CDPError")
            /\ UNCHANGED <<fill_steps, cli_printed>>
       ELSE /\ fill_steps' = Append(fill_steps, FillSteps[Len(fill_steps) + 1])
            /\ IF Len(fill_steps) + 1 < Len(FillSteps)
               THEN UNCHANGED <<cpc, fill_result, cli_printed, cli_end>>
               ELSE /\ fill_result' = "returned"
                    /\ cli_printed' = cli_printed \cup {"FILL_STATUS: READY_TO_PUBLISH"}
                    /\ IF ClicksAfterFill THEN cpc' = "click_publish" /\ UNCHANGED cli_end
                       ELSE CliEnds("returned")
    /\ UNCHANGED <<notCliVars, cli, cli_clicks>>

\* publisher._click_publish(); print("PUBLISH_STATUS: PUBLISHED")
CliClickPublish(result) ==
    /\ cpc = "click_publish"
    /\ cli_clicks' = IF result = "not_found" THEN cli_clicks ELSE cli_clicks + 1
    /\ IF result \in {"not_found", "clicked_then_raised"}
       THEN CliEnds("CDPError") /\ UNCHANGED cli_printed
       ELSE /\ cli_printed' = cli_printed \cup {"PUBLISH_STATUS: PUBLISHED"}
            /\ CliEnds("returned")
    /\ UNCHANGED <<notCliVars, cli, fill_steps, fill_result>>

\* ------------------------------------------------------------ ImageDownloader
\* At most MaxDownloads downloads are started and MaxCleanups cleanups called.
MaxDownloads == 2
MaxCleanups == 2

\* The files of the directory: those a download of this downloader wrote and
\* listed, those a download wrote before it raised, and one of someone else.
Downloaded(n) == [by |-> "download", n |-> n]
Partial(n) == [by |-> "partial", n |-> n]
OtherFile == [by |-> "other", n |-> 0]
Files ==
    { Downloaded(n) : n \in 1..MaxDownloads } \cup { Partial(n) : n \in 1..MaxDownloads }
        \cup {OtherFile}

\* No downloader has been made.
DownloaderIdle ==
    /\ temp_dir_arg = None
    /\ dpc = "new"
    /\ owns_dir = FALSE
    /\ dir_there = FALSE
    /\ dir_files = {}
    /\ downloaded_files = <<>>
    /\ dl_count = 0
    /\ cleanups = 0
    /\ last_call = ""
    /\ dl_raised = FALSE

notDownloaderVars ==
    <<cdpVars, decodeVars, tabVars, waitVars, filterVars, mainVars, cliVars>>

\* Variant: the downloader takes every directory for its own.
OwnsDir_Always(arg) == TRUE

\* if temp_dir: ... self._owns_dir = False  else: ... self._owns_dir = True
OwnsDir(arg) == arg = None

\* ImageDownloader.__init__: os.makedirs(temp_dir, exist_ok=True), or
\* tempfile.mkdtemp(prefix=TEMP_DIR_PREFIX)
ImageDownloader ==
    /\ dpc = "new"
    /\ dpc' = "ready"
    /\ owns_dir' = OwnsDir(temp_dir_arg)
    /\ dir_there' = TRUE
    /\ downloaded_files' = <<>>
    /\ UNCHANGED <<notDownloaderVars, temp_dir_arg, dir_files, dl_count, cleanups, last_call,
                   dl_raised>>

\* What a download comes to: the file is written and listed; requests.get or
\* raise_for_status raised; the writing raised after the file was opened.
DownloadOutcomes == {"written", "raised", "raised_in_write"}

\* ImageDownloader.download / download_video: the file is opened in temp_dir,
\* written, and then appended to downloaded_files
download(got) ==
    /\ dpc = "ready"
    /\ dl_count < MaxDownloads
    /\ dir_there \/ got = "raised"
    /\ dl_count' = dl_count + 1
    /\ dir_files' = IF got = "written" THEN dir_files \cup {Downloaded(dl_count')}
                    ELSE IF got = "raised_in_write" THEN dir_files \cup {Partial(dl_count')}
                    ELSE dir_files
    /\ downloaded_files' = IF got = "written"
                           THEN Append(downloaded_files, Downloaded(dl_count'))
                           ELSE downloaded_files
    /\ dl_raised' = (got # "written")
    /\ last_call' = "download"
    /\ UNCHANGED <<notDownloaderVars, temp_dir_arg, dpc, owns_dir, dir_there, cleanups>>

\* Another program writes its file into the directory.
OtherWrites ==
    /\ dpc = "ready"
    /\ dir_there
    /\ OtherFile \notin dir_files
    /\ dir_files' = dir_files \cup {OtherFile}
    /\ last_call' = "other"
    /\ UNCHANGED <<notDownloaderVars, temp_dir_arg, dpc, owns_dir, dir_there, downloaded_files,
                   dl_count, cleanups, dl_raised>>

\* Another program removes a file of the directory.
OtherRemoves(f) ==
    /\ dpc = "ready"
    /\ f \in dir_files
    /\ dir_files' = dir_files \ {f}
    /\ last_call' = "other"
    /\ UNCHANGED <<notDownloaderVars, temp_dir_arg, dpc, owns_dir, dir_there, downloaded_files,
                   dl_count, cleanups, dl_raised>>

\* The files of a sequence.
Listed(paths) == { paths[k] : k \in DOMAIN paths }

\* ImageDownloader.cleanup. kept are the files the system refuses to remove:
\* shutil.rmtree(..., ignore_errors=True) then leaves them and the directory,
\* os.remove raises OSError, which is passed over, as it is for a file that is
\* no longer there.
cleanup(kept) ==
    /\ dpc = "ready"
    /\ cleanups < MaxCleanups
    /\ kept \subseteq dir_files
    /\ IF owns_dir /\ dir_there
       THEN /\ dir_files' = kept
            /\ dir_there' = (kept # {})
       ELSE /\ kept \subseteq Listed(downloaded_files)
            /\ dir_files' = dir_files \ (Listed(downloaded_files) \ kept)
            /\ UNCHANGED dir_there
    /\ downloaded_files' = <<>>
    /\ cleanups' = cleanups + 1
    /\ dl_raised' = FALSE
    /\ last_call' = "cleanup"
    /\ UNCHANGED <<notDownloaderVars, temp_dir_arg, dpc, owns_dir, dl_count>>

\* ------------------------------------------------------------ specification
PageNums == {0, 1, 2}
PageSizes == {0, 10}

Init ==
    /\ CdpInit
    /\ DecodeIdle
    /\ TabIdle
    /\ WaitIdle
    /\ FilterIdle
    /\ MainIdle
    /\ CliIdle
    /\ DownloaderIdle

Next ==
    \/ \E found \in BOOLEAN : Connect(found)
    \/ Disconnect
    \/ ConnectionLost
    \/ CallSend
    \/ \E k \in BOOLEAN : search_feeds(k)
    \/ \E i \in BOOLEAN, t \in BOOLEAN : get_feed_detail(i, t)
    \/ \E i \in BOOLEAN : publish(i)
    \/ \E v \in BOOLEAN : publish_video(v)
    \/ \E n \in PageNums, z \in PageSizes : get_content_data(n, z)
    \/ \E f \in Frames(msg_id) : SendRecv(f)
    \/ LoopTop
    \/ LoopRecvTimeout
    \/ \E f \in LoopFrames(msg_id), dt \in {0, 1} : LoopRecv(f, dt)

Spec == Init /\ [][Next]_vars


\* The thread runs whenever it can: a recv that has a frame or a timeout to
\* deliver returns, the loop test is evaluated.  Nothing obliges the browser to
\* send the frame a command waits for.
ThreadStep ==
    \/ \E f \in Frames(msg_id) : SendRecv(f)
    \/ LoopTop
    \/ LoopRecvTimeout
    \/ \E f \in LoopFrames(msg_id), dt \in {0, 1} : LoopRecv(f, dt)

\* Time passes: a recv(timeout=...) cannot return frames for ever within the
\* same second.
TimePasses ==
    \/ LoopRecvTimeout
    \/ \E f \in LoopFrames(msg_id) : LoopRecv(f, 1)

FairSpec == Init /\ [][Next]_vars /\ WF_vars(ThreadStep) /\ SF_vars(TimePasses)

\* ---- the decoding of the captured body, on its own
\* The body fetch has returned br for the request with query q.
DecodeInit ==
    /\ CdpInit
    /\ body_result \in BodyResults
    /\ request_query \in Queries
    /\ requested \in RequestedArgs
    /\ content_data = NoContentData
    /\ TabIdle
    /\ WaitIdle
    /\ FilterIdle
    /\ MainIdle
    /\ CliIdle
    /\ DownloaderIdle

DecodeNext == DecodeContentData

DecodeSpec == DecodeInit /\ [][DecodeNext]_vars

\* ---- the resolution of the tab, on its own
TabInit ==
    /\ CdpInit
    /\ DecodeIdle
    /\ tpc = "idle"
    /\ attempt = 0
    /\ http = <<>>
    /\ targets = <<>>
    /\ target_url_prefix = NoPrefix
    /\ reuse_existing_tab = FALSE
    /\ local_host \in BOOLEAN
    /\ create_reply = ""
    /\ tab_outcome = NoTabOutcome
    /\ WaitIdle
    /\ FilterIdle
    /\ MainIdle
    /\ CliIdle
    /\ DownloaderIdle

TabNext ==
    \/ \E prefix \in {NoPrefix, CreatorPrefix}, reuse \in BOOLEAN : connect(prefix, reuse)
    \/ \E reply \in ListingReplies : GetTargets(reply)
    \/ \E reply \in CreateReplies : CreateTab(reply)
    \/ OpenSocket

TabSpec == TabInit /\ [][TabNext]_vars

\* ---- the readiness wait, on its own
WaitInit ==
    /\ CdpInit
    /\ DecodeIdle
    /\ TabIdle
    /\ WaitIdle
    /\ FilterIdle
    /\ MainIdle
    /\ CliIdle
    /\ DownloaderIdle

WaitNext ==
    \/ \E caller \in WaitCallers, timeout \in 0..MaxTimeout :
           /\ caller # "_wait_js_condition" => timeout > 0
           /\ wait_js_condition(caller, timeout)
    \/ WaitTest
    \/ \E ok \in Evaluations, dt \in EvaluateTicks : WaitEvaluate(ok, dt)
    \/ \E dt \in SleepTicks : WaitSleep(dt)

WaitSpec == WaitInit /\ [][WaitNext]_vars

\* ---- a search with filters, on its own
FilterInit ==
    /\ CdpInit
    /\ DecodeIdle
    /\ TabIdle
    /\ WaitIdle
    /\ MainIdle
    /\ CliIdle
    /\ DownloaderIdle
    /\ filters \in SearchFilters
    /\ has_move \in BOOLEAN
    /\ has_click \in BOOLEAN
    /\ eng = EngIdle
    /\ validated = ""
    /\ navigated = FALSE
    /\ evaluated = FALSE
    /\ pointer_moved = FALSE
    /\ pointer = <<>>
    /\ clicks = <<>>
    /\ fallbacks = <<>>

FilterNext ==
    \/ \E connected \in BOOLEAN, keyword_ok \in BOOLEAN :
           publisher_search_feeds(connected, keyword_ok)
    \/ explorer_search_feeds
    \/ \E is_ready \in BOOLEAN : WaitForSearchState(is_ready)
    \/ \E r \in ProbeResults : FindFilterButton(r)
    \/ \E r \in ProbeResults : ProbePanel(r)
    \/ \E r \in ProbeResults : ConfirmPanel(r)
    \/ \E r \in ProbeResults : SessionFindOption(r)
    \/ \E r \in ProbeResults : SessionFindOptionAgain(r)
    \/ \E r \in ProbeResults : SessionKeepPanel(r)
    \/ \E r \in ProbeResults : HoverFindButton(r)
    \/ \E r \in ProbeResults : HoverProbePanel(r)
    \/ \E r \in ProbeResults : HoverFindOption(r)
    \/ \E result \in JsResults : JsFallback(result)
    \/ \E raw \in FeedPayloads : ExtractSearchFeeds(raw)

FilterSpec == FilterInit /\ [][FilterNext]_vars

\* ---- a run of publish_pipeline.main, on its own
MainInit ==
    /\ CdpInit
    /\ DecodeIdle
    /\ TabIdle
    /\ WaitIdle
    /\ FilterIdle
    /\ CliIdle
    /\ DownloaderIdle
    /\ args \in PipelineArgs
    /\ ppc = "start"
    /\ exit_code = EXIT_SUCCESS
    /\ printed = {}
    /\ logged_in = ""
    /\ downloads = 0
    /\ fills = 0
    /\ publish_clicks = 0
    /\ note_link = None
    /\ downloader = "None"
    /\ steps = <<>>

MainNext ==
    \/ \E title_ok \in BOOLEAN, content_ok \in BOOLEAN : ResolveTexts(title_ok, content_ok)
    \/ \E started \in BOOLEAN : EnsureChrome(started)
    \/ \E call \in Calls : PipelineConnect(call)
    \/ \E result \in {"True", "False", "CDPError"} : CheckLogin(result)
    \/ \E call \in Calls : Reconnect(call)
    \/ \E call \in Calls : OpenLoginPage(call)
    \/ \E got \in MediaOutcomes : PrepareMedia(got)
    \/ \E call \in Calls : FillForm(call)
    \/ \E result \in ClickResults : ClickPublish(result)
    \/ \E call \in Calls : LikeCollect(call)
    \/ Cleanup

MainSpec == MainInit /\ [][MainNext]_vars

\* ---- a run of cdp_publish.main, on its own
CliInit ==
    /\ CdpInit
    /\ DecodeIdle
    /\ TabIdle
    /\ WaitIdle
    /\ FilterIdle
    /\ MainIdle
    /\ DownloaderIdle
    /\ cli \in CliArgs
    /\ cpc = "start"
    /\ fill_steps = <<>>
    /\ fill_result = ""
    /\ cli_clicks = 0
    /\ cli_printed = {}
    /\ cli_end = ""

CliNext ==
    \/ \E started \in BOOLEAN : CliEnsureChrome(started)
    \/ \E content_ok \in BOOLEAN : CliContent(content_ok)
    \/ \E call \in Calls : CliConnect(call)
    \/ \E result \in {"True", "False", "CDPError"} : CliCheckLogin(result)
    \/ \E call \in Calls : CliFillStep(call)
    \/ \E result \in ClickResults : CliClickPublish(result)

CliSpec == CliInit /\ [][CliNext]_vars


\* ---- an ImageDownloader and its directory, on their own
DownloaderInit ==
    /\ CdpInit
    /\ DecodeIdle
    /\ TabIdle
    /\ WaitIdle
    /\ FilterIdle
    /\ MainIdle
    /\ CliIdle
    /\ temp_dir_arg \in {None, "dir"}
    /\ dpc = "new"
    /\ owns_dir = FALSE
    /\ dir_there \in (IF temp_dir_arg = None THEN {FALSE} ELSE BOOLEAN)
    /\ dir_files \in (IF dir_there THEN {{}, {OtherFile}} ELSE {{}})
    /\ downloaded_files = <<>>
    /\ dl_count = 0
    /\ cleanups = 0
    /\ last_call = ""
    /\ dl_raised = FALSE

DownloaderNext ==
    \/ ImageDownloader
    \/ \E got \in DownloadOutcomes : download(got)
    \/ OtherWrites
    \/ \E f \in Files : OtherRemoves(f)
    \/ \E kept \in SUBSET Files : cleanup(kept)

DownloaderSpec == DownloaderInit /\ [][DownloaderNext]_vars

\* Under FairSpec the capture loop itself always ends: the time a recv takes
\* adds up to the deadline.
CaptureLoopEnds == [](pc \in {"gcd_top", "gcd_recv"} => <>(pc \notin {"gcd_top", "gcd_recv"}))

\* ================================================================== claims

\* The frames of the current call that ask for a response body.
BodyFetches == { i \in DOMAIN wire : wire[i].method = "Network.getResponseBody" }

\* C1: the value _send returns is the result payload of a received frame whose
\* id is the id the command was written with; a frame without an id (an event)
\* or with another id (a stale response) is never returned as the result.
C1_SendReturnsOwnResponse ==
    (ret.id # 0 /\ ~ret.raised) =>
        /\ ret.frame.id = ret.id
        /\ ret.frame.id # 0
        /\ ret.frame.method = ""
        /\ ret.value = (IF ret.frame.result = "" THEN EmptyResult ELSE ret.frame.result)
        /\ ret.id \in { issued[i] : i \in DOMAIN issued }
        /\ (pc = "idle" /\ outcome.kind = "ok") => outcome.value = ret.value

\* C1 witness: a command returned its own payload after the call had skipped a
\* stale response of the previous command.
C1_Witness ==
    /\ ret.id = 2
    /\ ret.value = "p1"
    /\ ret.skipped.id = 1
    /\ ret.skipped.result = "p1"

\* C4: the ids of the commands a publisher writes are strictly increasing, over
\* failed and aborted calls and over disconnect / connect, so no id is used twice.
C4_IdsStrictlyIncreasing ==
    /\ \A i, j \in DOMAIN issued : i < j => issued[i] < issued[j]
    /\ \A i \in DOMAIN issued : issued[i] <= msg_id
    /\ msg.id # 0 => msg.id = msg_id

\* C4 witness: commands were written before and after a reconnect, and the last
\* call failed with an error frame.
C4_Witness ==
    /\ 0 < issued_at_connect
    /\ issued_at_connect < Len(issued)
    /\ outcome.kind = "CDPError"

\* C5: an error frame with the id of the command fails that _send call with a
\* CDPError carrying the error payload, and only that call: the connection
\* stays open and a later command gets a fresh id.
C5_ErrorFailsTheCallOnly ==
    /\ (ret.id # 0 /\ ret.frame.error # "") =>
            /\ ret.raised
            /\ ret.frame.id = ret.id
            /\ pc = "idle"
            /\ outcome.kind = "CDPError"
            /\ outcome.error = ret.frame.error
            /\ outcome.id = ret.id
    /\ ret.raised => ret.frame.error # ""
    /\ outcome.kind = "CDPError" =>
            /\ ws = "open"
            /\ msg.id # 0 => msg.id > outcome.id
            /\ (ret.id # 0 /\ pc # "idle") => (ret.id > outcome.id /\ ret.frame.id = ret.id)

\* C5 witness: after a call failed with an error frame, the next command has
\* been answered by a frame with its own, larger id.
C5_Witness ==
    /\ outcome.kind = "CDPError"
    /\ outcome.error = "e1"
    /\ ret.id > outcome.id
    /\ ~ret.raised
    /\ ret.frame.id = ret.id


\* C2 (as claimed): every requestWillBeSent event delivered after Network.enable
\* was acknowledged, also one that arrives before the response to Page.navigate,
\* is recorded in request_url_by_id while the capture listens.
C2_EveryAnnouncementRecorded ==
    pc \in {"gcd_top", "gcd_recv"} =>
        \A rid \in DOMAIN announced :
            /\ rid \in DOMAIN request_url_by_id
            /\ request_url_by_id[rid] = announced[rid]

\* C3 (as claimed): every wait of the core ends, with a result or a failure,
\* also when the awaited frame never arrives: a call that has started returns.
C3_EveryWaitEnds == [](pc # "idle" => <>(pc = "idle"))

\* C6: with self.ws None, _send, search_feeds, get_feed_detail,
\* get_content_data, publish and publish_video fail with "Not connected"; no
\* frame is written (so nothing navigates) and the id counter keeps its value.
GuardedOps == NavigatingOps \cup {"_send", "get_content_data"}

C6_NotConnectedFailsCleanly ==
    [][ (ws = "None" /\ pc = "idle" /\ (pc' # "idle" \/ outcome'.op \in GuardedOps)) =>
            /\ pc' = "idle"
            /\ outcome' = NotConnectedError(outcome'.op)
            /\ outcome'.op \in GuardedOps
            /\ issued' = issued
            /\ wire' = <<>>
            /\ msg_id' = msg_id
            /\ ws' = "None" ]_vars

\* C6 witness: after commands were issued and the connection was closed,
\* publish_video has failed with "Not connected".
C6_Witness ==
    /\ ws = "None"
    /\ msg_id >= 1
    /\ issued # <<>>
    /\ outcome = NotConnectedError("publish_video")

\* A completion for a request whose recorded URL holds the API path.
IsCompletionOfTarget(f) ==
    /\ f.method = "Network.responseReceived"
    /\ f.requestId # NonString
    /\ Contains(XHS_CONTENT_DATA_API_PATH, Lookup(request_url_by_id, f.requestId))

\* C7: a responseReceived for a request whose recorded URL holds the API path,
\* with a status other than 200, fails the capture at once with the status
\* error naming status and URL: no further listening, no body fetch, no timeout.
C7_RefusedStatusFailsAtOnce ==
    /\ (IsCompletionOfTarget(message) /\ message.status # HTTP_OK) =>
            /\ pc = "idle"
            /\ outcome.kind = "StatusError"
            /\ outcome.op = "get_content_data"
            /\ outcome.status = message.status
            /\ outcome.url = request_url_by_id[message.requestId]
            /\ BodyFetches = {}
            /\ target_request_id = ""
    /\ (pc = "idle" /\ outcome.kind = "StatusError") =>
            /\ IsCompletionOfTarget(message)
            /\ message.status # HTTP_OK
            /\ Contains(XHS_CONTENT_DATA_API_PATH, outcome.url)

\* C7 witness: the capture has failed on a 406 for the target request before
\* its deadline.
C7_Witness ==
    /\ pc = "idle"
    /\ outcome.kind = "StatusError"
    /\ outcome.status = HTTP_REJECTED
    /\ outcome.url = TargetUrl
    /\ now < deadline

\* C8: the body is fetched for the requestId of the first responseReceived whose
\* recorded URL holds the API path and whose status is 200; listening stops at
\* that event, one body fetch is issued, and none for a request whose URL does
\* not hold the path.
C8_FetchesTheFirstTargetCompletion ==
    /\ Cardinality(BodyFetches) <= 1
    /\ \A i \in BodyFetches :
            /\ wire[i].params = target_request_id
            /\ wire[i].params \in DOMAIN request_url_by_id
            /\ Contains(XHS_CONTENT_DATA_API_PATH, request_url_by_id[wire[i].params])
            /\ target_request_url = request_url_by_id[wire[i].params]
            /\ message = ResponseReceived(wire[i].params, HTTP_OK)
            /\ hits = 1
    /\ (IsCompletionOfTarget(message) /\ message.status = HTTP_OK) =>
            /\ pc \in {"gcd_body", "idle"}
            /\ Cardinality(BodyFetches) = 1
    /\ pc \in {"gcd_top", "gcd_recv"} => (hits = 0 /\ BodyFetches = {})
    /\ pc = "gcd_body" => (hits = 1 /\ msg = wire[Len(wire)] /\ Len(wire) \in BodyFetches)

\* C8 witness: the body of r2 is being fetched while r1, recorded with another
\* URL, was seen too.
C8_Witness ==
    /\ pc = "gcd_body"
    /\ msg.params = "r2"
    /\ "r1" \in DOMAIN request_url_by_id
    /\ request_url_by_id["r1"] = OtherUrl

\* The capture loop of the last call was entered.
LoopWasEntered == deadline > 0

C10_IrrelevantFramesAreIgnored ==
    [][ (pc = "gcd_recv" /\ message' # NoFrame
         /\ \/ (message'.method = "Network.responseReceived" /\ ~IsCompletionOfTarget(message'))
            \/ message'.method \notin {"Network.requestWillBeSent", "Network.responseReceived"}) =>
            /\ pc' = "gcd_top"
            /\ op' = op
            /\ outcome' = outcome
            /\ request_url_by_id' = request_url_by_id
            /\ target_request_id' = target_request_id
            /\ target_request_url' = target_request_url
            /\ wire' = wire
            /\ msg_id' = msg_id
            /\ hits' = hits ]_vars

\* C10 witness: the loop goes on after a 406 for a request recorded with
\* another URL.
C10_Witness ==
    /\ pc = "gcd_top"
    /\ message = ResponseReceived("r1", HTTP_REJECTED)
    /\ "r1" \in DOMAIN request_url_by_id
    /\ request_url_by_id["r1"] = OtherUrl

\* ------------------------------------------------ claims on the decoding
\* The number a query value of the model spells.
NumberSpelled == (<<"2">> :> 2) @@ (<<"1", "0">> :> 10)

\* The pairs of the captured query that give key k a value.
GivenFor(k) == { i \in DOMAIN request_query : request_query[i][1] = k /\ request_query[i][2] # <<>> }

\* What the captured URL says for key k: the number of the first pair that
\* gives k a value, or default when there is none.
ServedValue(k, default) ==
    IF GivenFor(k) = {} THEN default
    ELSE LET first == CHOOSE i \in GivenFor(k) : \A j \in GivenFor(k) : i <= j
         IN NumberSpelled[request_query[first][2]]

\* Every value the captured URL gives a paging key is a number.
QueryIsNumeric ==
    \A i \in DOMAIN request_query :
        request_query[i][2] # <<>> => request_query[i][2] \in DOMAIN NumberSpelled

\* The body is a JSON object whose note_infos entries, if any, are objects.
BodyIsRecords ==
    /\ IsDict(BodyText(body_result))
    /\ \A i \in DOMAIN NoteInfosOf(BodyText(body_result).data) :
           NoteInfosOf(BodyText(body_result).data)[i] \in {NoteFull, NoteBare}

\* C11: when the paging values of the captured URL differ from the requested
\* ones the method does not fail: it returns the captured rows with the
\* requested_* values as asked and the resolved_* values of the captured URL
\* (1, 10, 0 for a parameter the URL does not give), and warns.
C11_ServedParametersWin ==
    (content_data.kind # "" /\ BodyIsRecords /\ QueryIsNumeric) =>
        /\ content_data.kind = "ok"
        /\ content_data.requested_page_num = requested.page_num
        /\ content_data.requested_page_size = requested.page_size
        /\ content_data.requested_type = requested.note_type
        /\ content_data.resolved_page_num = ServedValue("page_num", 1)
        /\ content_data.resolved_page_size = ServedValue("page_size", 10)
        /\ content_data.resolved_type = ServedValue("type", 0)
        /\ content_data.request_url = request_query
        /\ content_data.count_returned = Len(NoteInfosOf(BodyText(body_result).data))
        /\ content_data.warning <=>
               \/ requested.page_num # ServedValue("page_num", 1)
               \/ requested.page_size # ServedValue("page_size", 10)
               \/ requested.note_type # ServedValue("type", 0)

\* C11 witness: page 1 was requested, the captured URL says page 2 and type 2
\* and no page size; the rows of the captured body are returned.
C11_Witness ==
    /\ content_data.kind = "ok"
    /\ request_query = << <<"type", <<"2">> >>, <<"page_num", <<"2">> >> >>
    /\ content_data.requested_page_num = 1
    /\ content_data.resolved_page_num = 2
    /\ content_data.resolved_page_size = 10
    /\ content_data.resolved_type = 2
    /\ content_data.warning
    /\ content_data.count_returned = 1

\* The row the table shows for a record of the model.
ExpectedRow(note) ==
    IF note = NoteFull
    THEN [title |-> "T", imp_count |-> "0", id |-> "a1"]
    ELSE [title |-> "-", imp_count |-> "-", id |-> ""]

\* C12: a captured object without a data object, or whose data has no
\* note_infos list, yields a successful result with no rows and count_returned
\* 0; otherwise there is one row per record, in the order of the records, and
\* count_returned is the number of rows.
C12_RowsFollowTheRecords ==
    (content_data.kind # "" /\ BodyIsRecords /\ QueryIsNumeric) =>
        LET d == BodyText(body_result).data IN
        /\ content_data.kind = "ok"
        /\ content_data.count_returned = Len(content_data.rows)
        /\ (~IsDict(d) \/ ~IsList(d.note_infos)) => content_data.rows = <<>>
        /\ (IsDict(d) /\ IsList(d.note_infos)) =>
               /\ Len(content_data.rows) = Len(d.note_infos.items)
               /\ \A i \in DOMAIN d.note_infos.items :
                      content_data.rows[i] = ExpectedRow(d.note_infos.items[i])

\* C12 witness: two records, the first without title and id, were mapped to
\* two rows in that order.
C12_Witness ==
    /\ content_data.kind = "ok"
    /\ body_result.base64Encoded
    /\ content_data.count_returned = 2
    /\ content_data.rows[1].id = ""
    /\ content_data.rows[2].id = "a1"
    /\ content_data.total = "1"

\* The other case of C12: data whose note_infos is not a list gives no rows.
NoListGivesNoRows ==
    /\ content_data.kind = "ok"
    /\ IsDict(BodyText(body_result).data)
    /\ BodyText(body_result).data.note_infos.t = "str"
    /\ content_data.rows = <<>>

\* ------------------------------------------- claims on the tab resolution
\* The listing as the claims speak of it, in listing order: the page-type
\* targets that have a connect endpoint, and those whose URL starts with the
\* prefix given.
ListedPages ==
    { i \in DOMAIN targets :
        targets[i].type = "page" /\ targets[i].webSocketDebuggerUrl # NoEndpoint }

PrefixMatches ==
    { i \in ListedPages :
        /\ target_url_prefix # NoPrefix
        /\ \A k \in DOMAIN target_url_prefix :
               k \in DOMAIN targets[i].url /\ targets[i].url[k] = target_url_prefix[k] }

\* The endpoint of the first target of a non-empty set of listing positions.
FirstOf(S) == targets[CHOOSE i \in S : \A j \in S : i <= j].webSocketDebuggerUrl

Count(log, entry) == Cardinality({ i \in DOMAIN log : log[i] = entry })

TabResolved == tab_outcome.kind # ""

\* C13: with a prefix given and a listed page (with endpoint) whose URL starts
\* with it, the endpoint returned is that of the first such page in listing
\* order, no create request is made, and the reuse flag makes no difference.
C13_FirstPrefixMatchIsReturned ==
    (TabResolved /\ PrefixMatches # {}) =>
        /\ tab_outcome = Returned(FirstOf(PrefixMatches))
        /\ Count(http, "PUT /json/new") = 0
        /\ create_reply = ""

\* C13 witness: reuse was asked for, the first listed page does not match the
\* prefix, the second does and its endpoint is returned.
C13_Witness ==
    /\ tab_outcome = Returned(<<2>>)
    /\ reuse_existing_tab
    /\ target_url_prefix = CreatorPrefix
    /\ Len(targets) = 2
    /\ ListedPages = {1, 2}
    /\ targets[1].url = HomeTabUrl
    /\ targets[2].url = CreatorTabUrl

\* C14: without a prefix match, reuse requested and a page listed: the first
\* listed page is returned and no create request is made; reuse not requested:
\* the create request is made before any existing page is considered.
C14_ReuseElseCreateFirst ==
    /\ (TabResolved /\ PrefixMatches = {} /\ ListedPages # {} /\ reuse_existing_tab) =>
           /\ tab_outcome = Returned(FirstOf(ListedPages))
           /\ Count(http, "PUT /json/new") = 0
    /\ (PrefixMatches = {} /\ targets # <<>> /\ ~reuse_existing_tab) =>
           /\ tpc \in {"create", "done"}
           /\ TabResolved => (Count(http, "PUT /json/new") = 1 /\ create_reply # "")
           /\ tpc = "create" => ~TabResolved

\* C14 witness: reuse was asked for, the prefix matches no page, and the first
\* page, listed second, is returned without a create request.
C14_Witness ==
    /\ tab_outcome = Returned(<<2>>)
    /\ reuse_existing_tab
    /\ target_url_prefix = CreatorPrefix
    /\ ListedPages = {2}
    /\ targets[1].type = "iframe"
    /\ targets[1].url = CreatorTabUrl
    /\ http = <<"GET /json">>

\* C14, second case, is met too: the new tab is returned though a page exists.
CreatedDespiteExistingPage ==
    /\ tab_outcome = Returned(NewTabEndpoint)
    /\ ListedPages # {}
    /\ ~reuse_existing_tab

\* C15 (as claimed): whenever the create request yields no endpoint - a reply
\* that is not ok, an ok reply without an endpoint, or the request itself
\* failing - and a page was listed, the first listed page is returned.
C15_FallbackAfterAnyCreateFailure ==
    (TabResolved /\ create_reply \in {"raised", "not ok", "ok, no endpoint"} /\ ListedPages # {}) =>
        tab_outcome = Returned(FirstOf(ListedPages))

\* What holds of the fallback: after a reply that is not ok or carries no
\* endpoint the first listed page is returned.
FallbackAfterAReply ==
    (TabResolved /\ create_reply \in {"not ok", "ok, no endpoint"} /\ ListedPages # {}) =>
        tab_outcome = Returned(FirstOf(ListedPages))

\* C16 (as claimed): no page listed and no endpoint from the create request:
\* the resolution fails with CDPError "No browser tabs available" and connect
\* opens no connection; an endpoint returned is never empty and never that of
\* a listed target that is not a page.
C16_NothingConnectableFails ==
    /\ (TabResolved /\ ListedPages = {} /\ create_reply \in {"raised", "not ok", "ok, no endpoint"}) =>
           /\ tab_outcome = NoTabsAvailable
           /\ ws = "None"
    /\ tab_outcome.kind = "ok" =>
           /\ tab_outcome.ws_url # NoEndpoint
           /\ tab_outcome.ws_url = NewTabEndpoint \/ tab_outcome.ws_url[1] \in ListedPages

\* What holds when nothing is connectable: the resolution fails, with the
\* CDPError unless the create request itself raised, and no socket is opened;
\* a socket is opened only for an endpoint that was returned.
NothingConnectableOpensNothing ==
    /\ (TabResolved /\ ListedPages = {} /\ create_reply # "ok") =>
           /\ tab_outcome.kind # "ok"
           /\ create_reply \in {"not ok", "ok, no endpoint"} => tab_outcome = NoTabsAvailable
           /\ ws = "None"
    /\ tab_outcome.kind = "ok" =>
           /\ tab_outcome.ws_url # NoEndpoint
           /\ tab_outcome.ws_url = NewTabEndpoint \/ tab_outcome.ws_url[1] \in ListedPages
    /\ ws = "open" => tab_outcome.kind = "ok"

\* The part of C17 that does not depend on the host.
ListingIsRetriedOnce ==
    /\ Count(http, "GET /json") <= 2
    /\ Count(http, "ensure_chrome") <= 1
    /\ \A k \in DOMAIN http :
           http[k] = "ensure_chrome" => (k = 2 /\ http[1] = "GET /json")
    /\ attempt \in {0, 1}
    /\ attempt = 0 => Count(http, "GET /json") = (IF tpc \in {"idle", "get_targets"} THEN 0 ELSE 1)
    /\ attempt = 1 =>
           Count(http, "GET /json") = (IF tpc = "get_targets" THEN 1 ELSE 2)
    /\ tab_outcome = CannotReachChrome => (attempt = 1 /\ Count(http, "GET /json") = 2 /\ targets = <<>>)

\* C17 (as claimed): after a failed listing request a restart of the browser
\* is attempted once, then the listing is retried exactly once, and a second
\* failure gives up with a CDPError; never more than two listing requests or
\* one restart, and a restart only after a failed listing.
C17_RestartThenRetryOnce ==
    /\ ListingIsRetriedOnce
    /\ attempt = 1 => Count(http, "ensure_chrome") = 1

\* C17 (amended): as claimed, except that the restart is attempted only when
\* the host is the local machine; for a remote host the listing is retried
\* without a restart.
C17_RestartLocalThenRetryOnce ==
    /\ ListingIsRetriedOnce
    /\ attempt = 1 => Count(http, "ensure_chrome") = (IF local_host THEN 1 ELSE 0)

\* C17 witness: on the local host both listing requests failed, with one
\* restart between them, and the resolution gave up.
C17_Witness ==
    /\ tab_outcome = CannotReachChrome
    /\ local_host
    /\ http = <<"GET /json", "ensure_chrome", "GET /json">>
    /\ outcome.op = "connect"
    /\ ws = "None"

\* ------------------------------------------- claims on the readiness wait
\* The evaluations of the wait so far that returned a truthy value.
TruthyAt == { i \in DOMAIN evals : evals[i] = "truthy" }

WaitReturned == wpc = "returned"

\* C18: a wait with a positive timeout whose first evaluation is truthy returns
\* True after that one evaluation, without a sleep; whenever an evaluation is
\* truthy no evaluation and no sleep follows it.
C18_TruthyEndsTheWait ==
    /\ (WaitReturned /\ timeout_seconds > 0) => evals # <<>>
    /\ \A i \in TruthyAt :
           /\ i = Len(evals)
           /\ sleeps = i - 1
           /\ WaitReturned
           /\ ready = "True"
           /\ wait_error = ""
    /\ (evals # <<>> /\ evals[1] = "truthy") => (Len(evals) = 1 /\ sleeps = 0 /\ ready = "True")

\* C18 witness: the first evaluation was truthy and the wait returned True with
\* the whole budget left.
C18_Witness ==
    /\ WaitReturned
    /\ ready = "True"
    /\ evals = <<"truthy">>
    /\ sleeps = 0
    /\ timeout_seconds = MaxTimeout
    /\ wait_now = 0

\* C19: an evaluation that raises counts as not ready: the exception does not
\* reach the caller, the poll sleep follows and the polling goes on, and a
\* later truthy evaluation still makes the wait return True.
C19_RaisingEvaluationIsNotReady ==
    /\ ready \in {"", "True", "False"}
    /\ wait_error # "evaluation"
    /\ \A i \in DOMAIN evals :
           evals[i] = "raised" =>
               /\ i = Len(evals) => (wpc \in {"sleep", "test", "evaluate"} \/ ready = "False")
               /\ i = Len(evals) => (sleeps = i - 1 <=> wpc = "sleep")
               /\ i < Len(evals) => sleeps >= i
               /\ ready = "False" => wait_now >= wait_deadline
               /\ TruthyAt # {} => ready = "True"

\* C19 witness: the first evaluation raised, the second was truthy, the wait
\* returned True.
C19_Witness ==
    /\ WaitReturned
    /\ evals = <<"raised", "truthy">>
    /\ sleeps = 1
    /\ ready = "True"
    /\ wait_now < wait_deadline

\* C20: the wait returns True only after a truthy evaluation; it returns False
\* only when the deadline has passed and no evaluation was truthy; on False
\* _wait_for_search_state and _wait_for_detail_state raise the
\* FeedExplorerError that says what was waited for.
C20_TrueIfSeenFalseIfTimedOut ==
    /\ ready = "True" => (evals # <<>> /\ evals[Len(evals)] = "truthy")
    /\ ready = "False" =>
           /\ wait_now >= wait_deadline
           /\ wait_deadline = timeout_seconds
           /\ TruthyAt = {}
           /\ sleeps = Len(evals)
    /\ WaitReturned => ready \in {"True", "False"}
    /\ ~WaitReturned => (ready = "" /\ wait_error = "")
    /\ (ready = "False" /\ wait_caller = "_wait_for_search_state") => wait_error = SearchTimedOut
    /\ (ready = "False" /\ wait_caller = "_wait_for_detail_state") => wait_error = DetailTimedOut
    /\ ready = "True" => wait_error = ""

\* C20 witness: _wait_for_detail_state timed out after a falsy and a raising
\* evaluation and raised its error.
C20_Witness ==
    /\ WaitReturned
    /\ ready = "False"
    /\ wait_caller = "_wait_for_detail_state"
    /\ wait_error = DetailTimedOut
    /\ evals = <<"falsy", "raised">>
    /\ wait_now >= wait_deadline

\* ------------------------------- claims on search filters and the filter engine
\* A dimension holds a text, and the text is none of the dimension's own options.
Unset == {None, ""}
HoldsForeignValue ==
    \/ filters.sort_by \notin SORT_BY_OPTIONS \cup Unset
    \/ filters.note_type \notin NOTE_TYPE_OPTIONS \cup Unset
    \/ filters.publish_time \notin PUBLISH_TIME_OPTIONS \cup Unset
    \/ filters.search_scope \notin SEARCH_SCOPE_OPTIONS \cup Unset
    \/ filters.location \notin LOCATION_OPTIONS \cup Unset
HoldsOwnValue ==
    \/ filters.sort_by \in SORT_BY_OPTIONS
    \/ filters.note_type \in NOTE_TYPE_OPTIONS
    \/ filters.publish_time \in PUBLISH_TIME_OPTIONS
    \/ filters.search_scope \in SEARCH_SCOPE_OPTIONS
    \/ filters.location \in LOCATION_OPTIONS

\* C21: a search whose selection holds, in some set dimension, a value outside
\* that dimension's enumeration never gets past the validation, never returns
\* feeds, and calls neither move_mouse nor click_mouse, whatever the other
\* dimensions hold.
C21_InvalidSelectionMovesNoPointer ==
    HoldsForeignValue =>
        /\ eng.pc \in {"idle", "wait_initial", "failed"}
        /\ ~pointer_moved
        /\ clicks = <<>>

\* An invalid and a valid dimension, both callbacks supplied: the search failed
\* in validate.
C21_Witness ==
    /\ HoldsForeignValue
    /\ HoldsOwnValue
    /\ has_move /\ has_click
    /\ eng.pc = "failed"
    /\ validated = "rejected"
    /\ eng.error.kind = "FeedExplorerError"
    /\ eng.error.value = "shuffled"

\* C22: for a selection with an invalid value, no navigation and no evaluation
\* in the page is issued, and the search never ends in the readiness timeout.
C22_ValidatedBeforeThePage ==
    HoldsForeignValue =>
        /\ ~navigated
        /\ ~evaluated
        /\ eng.error # SearchStateTimedOut

\* The rest of C22 that holds: no option is looked for, no pointer event and no
\* script fallback is issued for such a selection.
InvalidSelectionAppliesNothing ==
    HoldsForeignValue => eng.values = <<>> /\ fallbacks = <<>> /\ eng.vi = 0

\* The values a selection asks for, dimension by dimension in the order of the page.
Given(value) == IF value \in Unset THEN <<>> ELSE <<value>>
GivenValues ==
    Given(filters.sort_by) \o Given(filters.note_type) \o Given(filters.publish_time)
        \o Given(filters.search_scope) \o Given(filters.location)

\* C23: validate accepts a selection exactly when the value of every set
\* dimension is one of that dimension's own options; the values to apply are the
\* values of the set dimensions and nothing else.
C23_AcceptedIffOwnOptions ==
    /\ validated = "accepted" => ~HoldsForeignValue /\ eng.values = GivenValues
    /\ validated = "rejected" => HoldsForeignValue /\ eng.values = <<>>

\* "any" is an option of four dimensions and none of sort_by: rejected there,
\* with an empty dimension beside it.
C23_Witness ==
    /\ validated = "rejected"
    /\ filters.sort_by = "any"
    /\ filters.note_type = ""
    /\ eng.error.value = "any"

\* The other case of C23: a selection with an empty and an unset dimension is
\* accepted, and one value is applied.
AcceptedWithUnsetDimensions ==
    /\ validated = "accepted"
    /\ filters.sort_by = ""
    /\ filters.note_type = "video"
    /\ eng.values = <<"video">>

\* _apply_single_filter raised for a value.
ApplyFailed == eng.pc = "failed" /\ validated = "accepted" /\ eng.error.value # ""
\* In that call the hover path, if it ran, and the script both probed for the
\* panel, and no probe found one.
PanelNeverAppeared ==
    /\ ApplyFailed
    /\ eng.probes = "missing"
    /\ fallbacks[Len(fallbacks)].result = "filter_panel_not_found"

\* C24: when no probe of the panel found one while a value was being applied,
\* the failure carries the reason filter_panel_not_found and no other reason.
C24_PanelNotFoundExactly ==
    PanelNeverAppeared =>
        eng.error.reason = "filter_panel_not_found" /\ eng.error.hover = ""

\* The part of C24 that holds: without the pointer callbacks the reason is
\* exactly filter_panel_not_found; with them that reason comes first.
PanelNotFoundComesFirst ==
    PanelNeverAppeared =>
        /\ eng.error.reason = "filter_panel_not_found"
        /\ ~(has_move /\ has_click) => eng.error.hover = ""

ThreeCauses == {"filter_button_not_found", "filter_panel_not_found", "option_not_found"}

\* C25: a failure of filter application names the value that was being applied
\* and exactly one of the three causes.
C25_OneOfThreeCauses ==
    ApplyFailed =>
        /\ eng.error.value = GivenValues[eng.vi]
        /\ eng.error.reason \in ThreeCauses
        /\ eng.error.hover = ""

\* The part of C25 that holds: the failure names the value, and its first
\* reason is what the script reported, "unknown" when the script gave no dict.
ApplyFailureNamesTheValue ==
    ApplyFailed =>
        /\ eng.error.value = GivenValues[eng.vi]
        /\ eng.error.reason \in ThreeCauses \cup {"unknown"}
        /\ eng.error.hover \in {"", "filter_button_not_found", "option_not_found"}

\* C26: within one search no value is clicked more than once.
C26_NoValueClickedTwice ==
    \A j, k \in DOMAIN clicks : j # k => clicks[j].i # clicks[k].i

\* The part of C26 that holds: a value is clicked twice only when the session
\* clicked it and failed later; the session and the loop each click a value
\* at most once.
ClickedTwiceOnlyAfterAFailedSession ==
    \A j, k \in DOMAIN clicks :
        j < k /\ clicks[j].i = clicks[k].i =>
            /\ clicks[j].by = "session"
            /\ clicks[k].by \in {"hover", "script"}
            /\ eng.session = "option_not_found"

\* C27: without both pointer callbacks no pointer callback is called, every
\* click is the script's, and the script fallback is called once per value in
\* the order of the page, for all values when the search returns; with both
\* callbacks the script fallback is called for a value only after the hover
\* path failed for that value.
C27_FallbackOnlyWithoutPointerElseAfterHover ==
    /\ ~(has_move /\ has_click) =>
          /\ ~pointer_moved
          /\ \A j \in DOMAIN clicks : clicks[j].by = "script"
          /\ \A j \in DOMAIN fallbacks : fallbacks[j].i = j
          /\ Len(fallbacks) <= Len(GivenValues)
          /\ eng.pc = "done" => Len(fallbacks) = Len(GivenValues)
    /\ (has_move /\ has_click) =>
          \A j \in DOMAIN fallbacks : fallbacks[j].i \in eng.hover_failed

\* Only move_mouse supplied: two values went through the script and the search
\* returned.
C27_Witness ==
    /\ has_move /\ ~has_click
    /\ eng.pc = "done"
    /\ Len(fallbacks) = 2
    /\ Len(clicks) = 2

\* The other case of C27: with both callbacks, the script was called for a value
\* after its hover path found the button and no option.
FallbackAfterHoverFailed ==
    /\ has_move /\ has_click
    /\ fallbacks # <<>>
    /\ eng.hover_reason = "option_not_found"

\* ------------------------------------------------ claims on publish_pipeline.main
\* C28: with --preview the publish button is never clicked, with or without
\* --auto-publish; without --auto-publish it is never clicked either.
C28_PreviewNeverClicksPublish ==
    /\ args.preview => publish_clicks = 0
    /\ ~args.auto_publish => publish_clicks = 0

\* --preview with --auto-publish: the form was filled and the run ended in
\* success.
C28_Witness ==
    /\ args.preview /\ args.auto_publish
    /\ ppc = "exited"
    /\ exit_code = 0
    /\ fills = 1
    /\ "FILL_STATUS: READY_TO_PUBLISH" \in printed

\* The run ended.
Exited == ppc = "exited"

\* C29: when check_login reported that the user is not logged in, the run ends
\* with exit code 1 after NOT_LOGGED_IN, headless or not, and nothing is
\* downloaded, filled or clicked.
C29_NotLoggedInExitsOne ==
    logged_in = "False" =>
        /\ downloads = 0 /\ fills = 0 /\ publish_clicks = 0
        /\ Exited => exit_code = 1 /\ "NOT_LOGGED_IN" \in printed

\* The part of C29 that holds: nothing is downloaded, filled or clicked; a
\* headed run ends with exit code 1, a headless run with 1 or 2.
NotLoggedInDoesNothing ==
    logged_in = "False" =>
        /\ downloads = 0 /\ fills = 0 /\ publish_clicks = 0
        /\ Exited => exit_code = IF "NOT_LOGGED_IN" \in printed THEN 1 ELSE 2
        /\ Exited /\ ~args.headless => exit_code = 1

\* ----------------------------------------------------- claims on cdp_publish.main
\* The steps a complete fill consists of, by the media argument.
CompleteFill ==
    IF cli.media = "video"
    THEN fill_steps = <<"_navigate", "_click_video_tab", "_upload_video",
                        "_wait_video_processing", "_fill_title", "_fill_content">>
    ELSE fill_steps = <<"_navigate", "_click_image_text_tab", "_upload_images",
                        "_fill_title", "_fill_content">>

\* C30: the command fill never clicks the publish button; the command publish
\* clicks it at most once, only after publish or publish_video returned, and
\* exactly once when it reports PUBLISHED; while publish or publish_video runs
\* no click is made.
C30_FillNeverClicksPublishOnceAfterFill ==
    /\ cli.command = "fill" => cli_clicks = 0
    /\ cli.command = "publish" =>
          /\ cli_clicks <= 1
          /\ cli_clicks = 1 => fill_result = "returned" /\ CompleteFill
          /\ "PUBLISH_STATUS: PUBLISHED" \in cli_printed => cli_clicks = 1
    /\ cli.command \in {"fill", "publish"} /\ fill_result # "returned" => cli_clicks = 0

\* The command publish with a video: filled, clicked, reported.
C30_Witness ==
    /\ cli.command = "publish"
    /\ cli.media = "video"
    /\ cli_clicks = 1
    /\ cli_end = "returned"
    /\ cli_printed = {"FILL_STATUS: READY_TO_PUBLISH", "PUBLISH_STATUS: PUBLISHED"}

\* The other case of C30: the command fill returned after a complete fill.
FillCommandReturned ==
    /\ cli.command = "fill"
    /\ cli_end = "returned"
    /\ CompleteFill

\* ----------------------------------- claims on the pointer of the filter engine
\* The points inside the panel the pointer is moved to.
PanelInterior == {Place("panel_enter"), Place("panel_keep"), Place("panel_corner")}

IsMoveTo(event, point) == event.type = "mouseMoved" /\ event.point = point

\* A press is dispatched right after a move to its point, and is followed by a
\* release at its point.
ClickIsMovePressRelease ==
    \A k \in 1..Len(pointer) :
        pointer[k].type = "mousePressed" =>
            /\ k > 1 /\ IsMoveTo(pointer[k - 1], pointer[k].point)
            /\ k < Len(pointer)
            /\ pointer[k + 1] = [type |-> "mouseReleased", point |-> pointer[k].point]
            /\ pointer[k].point.at = "option"

\* What is dispatched after a release is a move into the panel, and a search
\* does not end on a release.
MoveBackFollowsClick ==
    /\ \A k \in 1..Len(pointer) :
          pointer[k].type = "mouseReleased" /\ k < Len(pointer) =>
              \E point \in PanelInterior : IsMoveTo(pointer[k + 1], point)
    /\ eng.pc = "done" /\ pointer # <<>> => pointer[Len(pointer)].type # "mouseReleased"

\* C31: every click on an option is a press and a release at one point, right
\* after a move to that point, and right before a move back into the panel.
C31_ClickIsFramedByMoves == ClickIsMovePressRelease /\ MoveBackFollowsClick

\* ------------------------------------------- claims on the single-panel session
\* The clicks of the single-panel session, in the order they were dispatched.
SessionClicks == SelectSeq(clicks, LAMBDA c : c.by = "session")

\* The values of the selection, in the order sort_by, note_type, publish_time,
\* search_scope, location.
SelectedInFixedOrder ==
    LET dims == <<"sort_by", "note_type", "publish_time", "search_scope", "location">>
        given == SelectSeq(dims, LAMBDA d : filters[d] # None /\ filters[d] # "")
    IN  [k \in 1..Len(given) |-> filters[given[k]]]

\* C32: a session that reported success clicked each selected value once, in the
\* fixed order; a session clicks only after the panel was reported open; a
\* session that reported failure at a value clicked no value after it.
C32_SessionClicksEachValueOnceInOrder ==
    /\ eng.session = "ok" =>
          /\ [k \in 1..Len(SessionClicks) |-> SessionClicks[k].text] = SelectedInFixedOrder
          /\ [k \in 1..Len(SessionClicks) |-> SessionClicks[k].i]
                 = [k \in 1..Len(SelectedInFixedOrder) |-> k]
    /\ SessionClicks # <<>> => eng.panel_opened
    /\ eng.session \notin {"", "ok"} =>
          \A k \in 1..Len(SessionClicks) : SessionClicks[k].i < eng.failed_at

\* A session of two different values reported success.
C32_Witness ==
    /\ eng.session = "ok"
    /\ Len(SessionClicks) = 2
    /\ SessionClicks[1].text # SessionClicks[2].text

\* A session failed at its second value, after the click on the first.
SessionFailedAfterAClick ==
    /\ eng.session = "option_not_found"
    /\ eng.failed_at = 2
    /\ Len(SessionClicks) = 1

\* ------------------------------------------------ claims on _apply_single_filter
\* The clicks of _apply_single_filter on values[i]: by its hover path, by the script.
SingleClicks(i) ==
    { k \in 1..Len(clicks) : clicks[k].i = i /\ clicks[k].by \in {"hover", "script"} }

\* No value was clicked by the hover path and also handed to the script
\* fallback, and _apply_single_filter clicked no value twice.
HoverClickEndsTheValue ==
    \A i \in 1..Len(eng.values) :
        /\ Cardinality(SingleClicks(i)) <= 1
        /\ (\E k \in SingleClicks(i) : clicks[k].by = "hover") =>
               \A j \in 1..Len(fallbacks) : fallbacks[j].i # i

\* A click of _apply_single_filter is followed by the wait for the search state.
ClickThenWait ==
    (clicks' # clicks /\ clicks'[Len(clicks')].by \in {"hover", "script"})
        => eng'.pc = "wait_after_value"

\* From that wait the call goes on only when the state was ready, and fails with
\* the timeout error otherwise.
WaitThenOnOrTimeout ==
    (eng.pc = "wait_after_value" /\ eng' # eng) =>
        \/ eng'.pc = "failed" /\ eng'.error.kind = "FeedExplorerError"
              /\ eng'.error.reason = SearchTimedOut
        \/ eng'.pc = "extract" /\ eng.vi = Len(eng.values)
        \/ eng'.pc \in {"hover_button", "js"} /\ eng'.vi = eng.vi + 1

\* C33: a value clicked by the hover path is not handed to the script fallback,
\* so one application clicks at most once; after the click the engine waits for
\* the search state, and a timeout of that wait is raised as an error.
C33_OneClickThenWait ==
    /\ []HoverClickEndsTheValue
    /\ [][ClickThenWait /\ WaitThenOnOrTimeout]_vars

\* A search ended after its hover path clicked a value.
C33_Witness ==
    /\ eng.pc = "done"
    /\ \E k \in 1..Len(clicks) : clicks[k].by = "hover"

\* --------------------------------- claims on _open_filter_panel_via_hover_mouse
\* A step of the open procedure that made the move of attempt number n.
AttemptMoved(n) ==
    /\ eng.pc \in {"open_button", "open_probe", "open_confirm"}
    /\ eng'.pc = "open_probe"
    /\ eng'.opens = n

\* The last event dispatched, and the last move before it to one of the two
\* points of the attempts.
LastEvent(events) == events[Len(events)]
AttemptMovesIn(events) ==
    SelectSeq(events, LAMBDA ev : ev.type = "mouseMoved" /\ ev.point.at \in {"button", "near"})

\* The first move goes to the centre of the button; each later move goes to the
\* centre or to the point near it, and from the second on to the one of the two
\* that the move before it did not go to.
MovesAlternate ==
    \A n \in 0..(PANEL_ATTEMPTS - 1) :
        AttemptMoved(n) =>
            /\ pointer' # <<>>
            /\ LastEvent(pointer').type = "mouseMoved"
            /\ LastEvent(pointer').point.at \in {"button", "near"}
            /\ n = 0 => LastEvent(pointer').point.at = "button"
            /\ n >= 2 => /\ AttemptMovesIn(pointer) # <<>>
                         /\ LastEvent(AttemptMovesIn(pointer)).point
                                # LastEvent(pointer').point

\* The procedure reports that the button was not found without a pointer event.
NoMoveWithoutButton ==
    (eng.pc = "open_button" /\ eng'.open_report = "filter_button_not_found")
        => pointer' = pointer

\* The procedure reports that the panel was not found from its 20th attempt
\* only, and its 20th attempt ends in a report.
PanelNotFoundAfterLastAttempt ==
    /\ (eng.open_report = "" /\ eng'.open_report = "filter_panel_not_found")
           => eng.pc \in {"open_probe", "open_confirm"} /\ eng.opens = 19
    /\ (eng.pc \in {"open_probe", "open_confirm"} /\ eng.opens = 19 /\ eng' # eng
            /\ eng'.pc \notin {"failed", "open_confirm"})
           => eng'.open_report \in {"ok", "filter_panel_not_found"}

\* C34: the open procedure makes at most 20 attempts; its first move goes to the
\* centre of the button and the later moves alternate between the point near
\* the button and the centre; it reports success only after two probes in a row
\* saw the panel; it reports that the button was not found without moving the
\* pointer, and that the panel was not found only after the 20th attempt.
C34_OpenProcedure ==
    /\ [](eng.opens < 20)
    /\ [](eng.open_report = "ok" => eng.panel_probes = <<"rect", "rect">>)
    /\ [](eng.open_report \in {"", "ok", "filter_button_not_found", "filter_panel_not_found"})
    /\ [][MovesAlternate /\ NoMoveWithoutButton /\ PanelNotFoundAfterLastAttempt]_vars

\* The procedure reported the panel open at an attempt that moved to the point
\* near the button, after attempts that did not see the panel.
C34_Witness ==
    /\ eng.open_report = "ok"
    /\ eng.opens = 2

\* The procedure reported that the panel was not found.
PanelNotFoundReported == eng.open_report = "filter_panel_not_found"

\* ------------------------------------------ claims on the option that is clicked
\* The dimensions of the selection that have a value, in the fixed order.
SelectedDimensions ==
    SelectSeq(<<"sort_by", "note_type", "publish_time", "search_scope", "location">>,
              LAMBDA d : filters[d] # None /\ filters[d] # "")

\* C36: the option clicked for the value of a dimension stands in the group of
\* that dimension, also when other dimensions have an option of the same text.
C36_ClickedOptionIsOfItsDimension ==
    \A k \in 1..Len(clicks) :
        /\ clicks[k].i \in 1..Len(SelectedDimensions)
        /\ clicks[k].group = SelectedDimensions[clicks[k].i]

\* A text that only one dimension has is clicked in the group of that dimension.
OwnTextIsClickedInItsGroup ==
    \A k \in 1..Len(clicks) :
        clicks[k].text \in {"latest", "video"} =>
            clicks[k].group = SelectedDimensions[clicks[k].i]

\* ------------------------------------------ claims on the steps of the pipeline
\* The place of a step in the order of the pipeline.
StepRank(step) ==
    CASE step = "ensure_chrome" -> 1
      [] step = "check_login" -> 2
      [] step = "prepare_media" -> 3
      [] step = "fill_form" -> 4
      [] step = "click_publish" -> 5
      [] step = "like_collect" -> 6

Done(step) == \E k \in 1..Len(steps) : steps[k] = step

\* C35: the steps of main come in the order browser, login, media, form, publish
\* click, like and collect; the publish button is clicked only after check_login
\* returned true and the form was filled without error; like and collect are
\* done only after a publish click that gave a link.
C35_StepsInOrder ==
    /\ \A j, k \in 1..Len(steps) : j < k => StepRank(steps[j]) < StepRank(steps[k])
    /\ Done("check_login") => Done("ensure_chrome") /\ logged_in = "True"
    /\ Done("prepare_media") => Done("check_login")
    /\ Done("fill_form") => Done("prepare_media") /\ fills > 0
    /\ (Done("click_publish") \/ publish_clicks > 0) =>
          /\ Done("fill_form")
          /\ logged_in = "True"
          /\ "FILL_STATUS: READY_TO_PUBLISH" \in printed
    /\ Done("like_collect") =>
          /\ Done("click_publish")
          /\ publish_clicks > 0
          /\ note_link = "link"

\* A run went through all six steps.
C35_Witness == Len(steps) = 6 /\ ppc = "exited"

\* C38: a run that created an ImageDownloader ends with its cleanup called.
C38_DownloaderIsCleanedUp == (Exited /\ downloader # "None") => downloader = "cleaned"

\* The part of C38 that holds: once the media are prepared, every end of the run
\* calls the cleanup.
CleanedUpOncePrepared ==
    (Exited /\ downloader # "None" /\ Done("prepare_media")) => downloader = "cleaned"

\* ------------------------------------------ claims on connect with a prefix
\* The URL of the surface whose endpoint connect got: that of the listed target,
\* or XHS_CREATOR_URL for the tab the browser created.
AttachedUrl ==
    IF tab_outcome.ws_url = NewTabEndpoint THEN CreatorTabUrl
    ELSE targets[tab_outcome.ws_url[1]].url

UrlHasPrefix(u) ==
    \A k \in DOMAIN target_url_prefix : k \in DOMAIN u /\ u[k] = target_url_prefix[k]

PrefixedConnectGotATab ==
    TabResolved /\ target_url_prefix # NoPrefix /\ tab_outcome.kind = "ok"

CleanupCalled == cleanups' = cleanups + 1

\* The files this downloader downloaded.
OwnDownloads == { f \in Files : f.by = "download" }

\* cleanup removes the directory only if the downloader made it itself.
RemovesOnlyItsOwnDirectory ==
    (CleanupCalled /\ dir_there /\ ~dir_there') => temp_dir_arg = None

\* In a directory the caller gave, cleanup removes files the downloader
\* downloaded and nothing else, and leaves the directory.
LeavesTheCallersDirectory ==
    (CleanupCalled /\ temp_dir_arg # None) =>
        /\ dir_there' = dir_there
        /\ dir_files' \subseteq dir_files
        /\ (dir_files \ dir_files') \subseteq OwnDownloads

\* After cleanup the list is empty, and cleanup does not raise.
ListIsEmptyAfterCleanup == last_call = "cleanup" => downloaded_files = <<>> /\ ~dl_raised

\* A cleanup right after a cleanup changes nothing.
SecondCleanupChangesNothing ==
    (CleanupCalled /\ last_call = "cleanup") =>
        UNCHANGED <<dir_there, dir_files, downloaded_files>>

\* A cleanup right after a cleanup changes nothing, unless the first left the
\* directory the downloader had made, which the second then removes again.
SecondCleanupOnlyRetries ==
    (CleanupCalled /\ last_call = "cleanup") =>
        /\ UNCHANGED downloaded_files
        /\ \/ UNCHANGED <<dir_there, dir_files>>
           \/ temp_dir_arg = None /\ dir_there /\ dir_files' \subseteq dir_files

OwnDirectoryRemoved ==
    /\ cleanups = 2
    /\ temp_dir_arg = None
    /\ ~dir_there
    /\ dl_count > 0

====
